---- MODULE Spec2Model ----
(***************************************************************************)
(* Verification model of the thymes2js request-dispatch core:              *)
(*   - ActorRegistryCache   (src/lib/actor-registry/actor-registry-cache.js)*)
(*   - Endpoint, EndpointMapper (src/lib/endpoint.js, src/unnamed/part_016)*)
(*   - EndpointCallResponse (src/lib/endpoint-call-response.js)            *)
(*   - Application.respond / EndpointCall (src/unnamed/part_013)           *)
(* Each component has its own specification over the shared variables.     *)
(***************************************************************************)
EXTENDS Integers, Sequences, FiniteSets, TLC

(***************************************************************************)
(* Bounds of the model.                                                    *)
(***************************************************************************)
NumKeys == 3        \* actor ids are 1..NumKeys
MaxCached == 2      \* configured cache capacity in the enabled configurations
MaxLookups == 4     \* number of ActorRegistryCache.lookup calls explored
MaxTime == 2        \* number of clock ticks explored
CacheTTL == 1       \* configured TTL, in seconds, in the enabled configurations

Keys == 1..NumKeys

\* The clock advances by half a TTL per tick.
TickMs == (CacheTTL * 1000) \div 2

VARIABLES
    \* ---- ActorRegistryCache ----
    provider,       \* the ActorRegistryCacheProvider's properties, the logger and the
                    \* application's configuration parameters
    maxCached,      \* this._maxCached
    cacheTTLms,     \* this._cacheTTLms
    disabled,       \* this._disabled
    cacheKeys,      \* keys of this._cache, in insertion order (Map iteration order)
    cacheMap,       \* this._cache: key -> [resolved, timestamp, actorPromise]
    now,            \* Date.now()
    upstream,       \* every ActorRegistry.lookup call issued so far:
                    \*   [key, via, state]; its index names the promise handed out
    calls,          \* every cache lookup call so far: [key, ret, getActorId]
                    \* (ret = 0: threw; getActorId: the registry's
                    \* getActorId was called)
    warned,         \* an 'ineffective actors cache' warning was logged
    \* ---- Application and EndpointCall ----
    cfg,            \* the application's configuration and registered endpoints
    appShutdown,    \* this._shutdown
    req,            \* the HTTP request handed to respond()
    handler,        \* properties of the matched endpoint's handler
    call,           \* the EndpointCall object's fields
    pc,             \* what the call is waiting for
    entityIn,       \* the request entity being read: declared length, bytesRead, chunks
    http,           \* the http.ServerResponse: heads written, body, end() calls
    out,            \* the buffered write loop: bufs, curBufInd
    log,            \* which collaborators were called, which errors occurred
    \* ---- a second EndpointCall, for a request with another Origin header ----
    other,          \* the fields of the EndpointCall that is not moving, its
                    \* request and its http.ServerResponse
    pending,        \* <<>>, or the event one call has met and the other has
                    \* not met yet
    \* ---- Basic authenticator ----
    auth,           \* the request's Authorization header and how the actor
                    \* lookup of authenticate() settled; in front of the
                    \* cache, for each call of authenticate() that reached
                    \* the cache's lookup: what validCredentials returns for
                    \* it, whether the lookup found a resolved fresh entry,
                    \* and the result
    \* ---- Application: registration and initialization ----
    app,            \* the application's registrations and services
    lastCall,       \* the latest method called and the error it threw
    \* ---- The headers of one response ----
    headersSet,     \* a response (or headers set) that header() is called on
    headerCall,     \* the arguments of the latest call of header()
    given           \* for each header in the set, the elements its handler
                    \* was given since the header was added

cacheVars == <<provider, maxCached, cacheTTLms, disabled, cacheKeys, cacheMap, now,
               upstream, calls, warned>>

callVars == <<cfg, appShutdown, req, handler, call, pc, entityIn, http, out, log>>

pairVars == <<other, pending>>

\* The variables of the specification of registration and initialization
appVars == <<app, lastCall>>

\* The variables of the specification of the headers of one response
headerVars == <<headersSet, headerCall, given>>

standaloneVars == <<appVars, headerVars>>

vars == <<cacheVars, callVars, pairVars, auth, standaloneVars>>

\* No request: no Authorization header seen, no actor lookup made
NoAuth == [header |-> "", lookup |-> ""]

\* The EndpointCall in progress, its request and its http.ServerResponse
ThisCall ==
    [req |-> req, handler |-> handler, call |-> call, pc |-> pc,
     entityIn |-> entityIn, http |-> http, out |-> out, log |-> log]

(***************************************************************************)
(* ActorRegistryCache                                                      *)
(***************************************************************************)

\* The constructor with this._disabled never set
CacheConstructorNeverDisabled(mc, ttl) ==
    /\ maxCached = mc
    /\ cacheTTLms = ttl * 1000
    /\ disabled = FALSE
    /\ cacheKeys = <<>>
    /\ cacheMap = <<>>

\* constructor(runtime, maxCached, cacheTTL)
CacheConstructor(mc, ttl) ==
    /\ maxCached = mc
    /\ cacheTTLms = ttl * 1000
    /\ disabled = ((mc <= 0) \/ (ttl <= 0))
    /\ cacheKeys = <<>>
    /\ cacheMap = <<>>

\* Number(runtime.config(name)) || property: config is <<>> for a parameter
\* that is not set (Number(undefined) is NaN) or <<v>>; NaN and 0 are falsy
NumberOrProperty(config, property) ==
    IF config = <<>> THEN property
    ELSE IF config[1] = 0 THEN property
    ELSE config[1]

\* ActorRegistryCacheProvider.createService(runtime)
CreateService(p) ==
    CacheConstructor(NumberOrProperty(p.X2_ACTOR_CACHE_MAX, p.maxCached),
                     NumberOrProperty(p.X2_ACTOR_CACHE_TTL, p.cacheTTL))

\* The methods of the framework's DefaultLogger (it has warning(), not the
\* warn() of the Logger interface) and of a logger supplied by the
\* application that implements the Logger interface.
LoggerMethods(logger) ==
    IF logger = "DefaultLogger"
    THEN {"debug", "info", "warning", "error", "isDebugEnabled"}
    ELSE {"debug", "info", "warn", "error", "isDebugEnabled"}

\* A provider with the properties maxCached and cacheTTL in an application
\* with the configuration parameters configMax and configTTL; the runtime's
\* logger is the framework's default one unless the application replaces it
Provider(mc, ttl, configMax, configTTL) ==
    [maxCached |-> mc, cacheTTL |-> ttl,
     X2_ACTOR_CACHE_MAX |-> configMax, X2_ACTOR_CACHE_TTL |-> configTTL,
     logger |-> "DefaultLogger"]

\* The providers and configurations explored
Providers ==
    { Provider(MaxCached, CacheTTL, <<>>, <<>>),
      Provider(0, CacheTTL, <<>>, <<>>),
      Provider(MaxCached, 0, <<>>, <<>>),
      Provider(-1, -1, <<>>, <<>>),
      Provider(MaxCached, CacheTTL, <<-1>>, <<>>),
      Provider(MaxCached, CacheTTL, <<>>, <<-1>>),
      Provider(MaxCached, CacheTTL, <<0>>, <<>>),
      Provider(0, 0, <<>>, <<0>>),
      [Provider(MaxCached, CacheTTL, <<>>, <<>>) EXCEPT !.logger = "Logger"] }

\* this._cache.size
CacheSize == Len(cacheKeys)

\* this._cache.has(k)
Has(k) == \E i \in 1..Len(cacheKeys) : cacheKeys[i] = k

\* The identifier `his` of the sweep's first condition is declared nowhere:
\* evaluating it in strict mode throws a ReferenceError.
hisDefined == FALSE

\* Mutant: the capacity test is off by one.
NeedsRoomOffByOne == CacheSize > maxCached

\* if (this._cache.size >= this._maxCached)
NeedsRoom == CacheSize >= maxCached

\* (now - cached.timestamp) >= this._cacheTTLms
Expired(v, t) == (t - v.timestamp) >= cacheTTLms

RemoveKey(ks, k) == SelectSeq(ks, LAMBDA x : x # k)

\* Mutant: the sweep takes an entry as the oldest one whether or not it is
\* resolved.
SweepStepOldestOfAll(acc, k, t) ==
    LET v == cacheMap[k] IN
    IF acc.threw THEN acc
    ELSE IF v.resolved /\ ~hisDefined THEN [acc EXCEPT !.threw = TRUE]
    ELSE IF v.resolved /\ Expired(v, t)
        THEN [acc EXCEPT !.keys = RemoveKey(@, k), !.numRemoved = @ + 1]
    ELSE IF v.timestamp < acc.oldestTS
        THEN [acc EXCEPT !.oldestKey = k, !.oldestTS = v.timestamp]
    ELSE acc

\* One callback of this._cache.forEach((v, k) => ...) of the sweep.
\* acc = [threw, keys, oldestKey, oldestTS, numRemoved]; oldestKey 0 is undefined.
SweepStep(acc, k, t) ==
    LET v == cacheMap[k] IN
    IF acc.threw THEN acc
    ELSE IF v.resolved /\ ~hisDefined THEN [acc EXCEPT !.threw = TRUE]
    ELSE IF v.resolved /\ Expired(v, t)
        THEN [acc EXCEPT !.keys = RemoveKey(@, k), !.numRemoved = @ + 1]
    ELSE IF v.resolved /\ (v.timestamp < acc.oldestTS)
        THEN [acc EXCEPT !.oldestKey = k, !.oldestTS = v.timestamp]
    ELSE acc

RECURSIVE SweepFrom(_, _, _, _)
SweepFrom(acc, ks, i, t) ==
    IF i > Len(ks) THEN acc
    ELSE SweepFrom(SweepStep(acc, ks[i], t), ks, i + 1, t)

\* let oldestKey, oldestTS = now, numRemoved = 0; this._cache.forEach(...)
Sweep(t) ==
    SweepFrom([threw |-> FALSE, keys |-> cacheKeys, oldestKey |-> 0,
               oldestTS |-> t, numRemoved |-> 0],
              cacheKeys, 1, t)

\* The admission part of lookup for a key without an entry: the outcome is
\* "throw" (ReferenceError), "bypass" (don't cache) or "admit" with the keys
\* that remain in the map.
Admission(t) ==
    IF ~NeedsRoom THEN [outcome |-> "admit", keys |-> cacheKeys]
    ELSE LET s == Sweep(t) IN
         IF s.threw THEN [outcome |-> "throw", keys |-> cacheKeys]
         ELSE IF s.numRemoved # 0 THEN [outcome |-> "admit", keys |-> s.keys]
         ELSE IF s.oldestKey # 0
             THEN [outcome |-> "admit", keys |-> RemoveKey(s.keys, s.oldestKey)]
         ELSE [outcome |-> "bypass", keys |-> cacheKeys]

\* Mutant: the staleness test forgets that the entry must be resolved.
StaleIgnoringResolved(v, t) == Expired(v, t)

\* stale = (cached.resolved && ((now - cached.timestamp) >= this._cacheTTLms))
Stale(v, t) == v.resolved /\ Expired(v, t)

Restrict(f, S) == [x \in S |-> f[x]]
SeqSet(s) == {s[i] : i \in 1..Len(s)}

\* lookup(authResult), k = this._actorRegistry.getActorId(authResult)
\* (in disabled mode getActorId is not called; k then only names the request)
Lookup(k) ==
    /\ Len(calls) < MaxLookups
    /\ LET id == Len(upstream) + 1
           direct == [key |-> k, via |-> "direct", state |-> "pending"]
           entry == [key |-> k, via |-> "entry", state |-> "pending"]
       IN
       IF disabled THEN
           \* return this._actorRegistry.lookup(authResult)
           /\ upstream' = Append(upstream, direct)
           /\ calls' = Append(calls, [key |-> k, ret |-> id,
                                      getActorId |-> FALSE])
           /\ UNCHANGED <<cacheKeys, cacheMap, warned>>
       ELSE IF ~Has(k) THEN
           LET a == Admission(now) IN
           CASE a.outcome = "throw" ->
                   /\ calls' = Append(calls, [key |-> k, ret |-> 0,
                                      getActorId |-> TRUE])
                   /\ UNCHANGED <<cacheKeys, cacheMap, upstream, warned>>
             [] a.outcome = "bypass" ->
                   \* this._logger.warn('ineffective actors cache'): a
                   \* TypeError when the logger has no method warn
                   IF "warn" \notin LoggerMethods(provider.logger)
                   THEN /\ calls' = Append(calls, [key |-> k, ret |-> 0,
                                           getActorId |-> TRUE])
                        /\ UNCHANGED <<cacheKeys, cacheMap, upstream, warned>>
                   ELSE /\ warned' = TRUE
                        /\ upstream' = Append(upstream, direct)
                        /\ calls' = Append(calls, [key |-> k, ret |-> id,
                                           getActorId |-> TRUE])
                        /\ UNCHANGED <<cacheKeys, cacheMap>>
             [] a.outcome = "admit" ->
                   \* this._cache.set(actorId, cached = {}); stale = true
                   /\ cacheKeys' = Append(a.keys, k)
                   /\ cacheMap' = [x \in SeqSet(a.keys) \cup {k} |->
                          IF x = k
                          THEN [resolved |-> FALSE, timestamp |-> -1,
                                actorPromise |-> id]
                          ELSE cacheMap[x]]
                   /\ upstream' = Append(upstream, entry)
                   /\ calls' = Append(calls, [key |-> k, ret |-> id,
                                      getActorId |-> TRUE])
                   /\ UNCHANGED warned
       ELSE IF Stale(cacheMap[k], now) THEN
           \* cached.resolved = false; cached.actorPromise = ...lookup(...).then(...)
           /\ cacheMap' = [cacheMap EXCEPT ![k].resolved = FALSE,
                                           ![k].actorPromise = id]
           /\ upstream' = Append(upstream, entry)
           /\ calls' = Append(calls, [key |-> k, ret |-> id,
                                      getActorId |-> TRUE])
           /\ UNCHANGED <<cacheKeys, warned>>
       ELSE
           \* return cached.actorPromise
           /\ calls' = Append(calls,
                  [key |-> k, ret |-> cacheMap[k].actorPromise,
                   getActorId |-> TRUE])
           /\ UNCHANGED <<cacheKeys, cacheMap, upstream, warned>>
    /\ UNCHANGED <<provider, maxCached, cacheTTLms, disabled, now>>

\* The registry's promise of call id fulfils: for a call issued for an entry the
\* first callback of .then() runs (cached is the entry object the call was
\* issued for, which is the one in the map as long as it holds this promise).
UpstreamResolves(id) ==
    /\ id \in 1..Len(upstream)
    /\ upstream[id].state = "pending"
    /\ upstream' = [upstream EXCEPT ![id].state = "fulfilled"]
    /\ LET k == upstream[id].key IN
       IF upstream[id].via = "entry" /\ Has(k) /\ cacheMap[k].actorPromise = id
       THEN cacheMap' = [cacheMap EXCEPT ![k].resolved = TRUE,
                                         ![k].timestamp = now]
       ELSE UNCHANGED cacheMap
    /\ UNCHANGED <<provider, maxCached, cacheTTLms, disabled, cacheKeys, now, calls,
                   warned>>
    /\ UNCHANGED <<callVars, pairVars, auth, standaloneVars>>

\* The registry's promise of call id rejects: for a call issued for an entry the
\* second callback of .then() runs: this._cache.delete(actorId).
UpstreamRejects(id) ==
    /\ id \in 1..Len(upstream)
    /\ upstream[id].state = "pending"
    /\ upstream' = [upstream EXCEPT ![id].state = "rejected"]
    /\ LET k == upstream[id].key IN
       IF upstream[id].via = "entry" /\ Has(k)
       THEN /\ cacheKeys' = RemoveKey(cacheKeys, k)
            /\ cacheMap' = Restrict(cacheMap, SeqSet(cacheKeys) \ {k})
       ELSE UNCHANGED <<cacheKeys, cacheMap>>
    /\ UNCHANGED <<provider, maxCached, cacheTTLms, disabled, now, calls, warned>>
    /\ UNCHANGED <<callVars, pairVars, auth, standaloneVars>>

\* Time passes.
Tick ==
    /\ now < MaxTime * TickMs
    /\ now' = now + TickMs
    /\ UNCHANGED <<provider, maxCached, cacheTTLms, disabled, cacheKeys, cacheMap,
                   upstream, calls, warned>>
    /\ UNCHANGED <<callVars, pairVars, auth, standaloneVars>>


(***************************************************************************)
(* Regular expressions of the endpoint URI patterns.  A text is a sequence *)
(* of characters.  A pattern is a sequence of items: a literal text, or a  *)
(* capturing group of alternative literal texts that may be optional       *)
(* ("(x|y)" and "(x|y)?").  Absent is the value of a group that did not    *)
(* take part in the match (undefined in the match array).                  *)
(***************************************************************************)
Absent == <<"undefined">>

Lit(text) == [kind |-> "lit", alts |-> <<text>>, opt |-> FALSE]
Grp(alts) == [kind |-> "grp", alts |-> alts, opt |-> FALSE]
OptGrp(alts) == [kind |-> "grp", alts |-> alts, opt |-> TRUE]

\* text.startsWith(part, pos)
StartsWithAt(text, part, pos) ==
    /\ pos + Len(part) - 1 <= Len(text)
    /\ \A i \in 1..Len(part) : text[pos + i - 1] = part[i]

RECURSIVE MatchItems(_, _, _, _, _)
RECURSIVE MatchAlts(_, _, _, _, _, _)

\* RegExp.exec of the items from item i on at position pos of text, anchored
\* at the end ($), backtracking over the alternatives in order; caps are the
\* groups captured so far.  The result is [ok, caps].
MatchItems(items, i, text, pos, caps) ==
    IF i > Len(items) THEN [ok |-> pos = Len(text) + 1, caps |-> caps]
    ELSE MatchAlts(items, i, 1, text, pos, caps)

MatchAlts(items, i, a, text, pos, caps) ==
    LET it == items[i] IN
    IF a > Len(it.alts) THEN
        IF it.opt
        THEN MatchItems(items, i + 1, text, pos, Append(caps, Absent))
        ELSE [ok |-> FALSE, caps |-> caps]
    ELSE
        LET alt == it.alts[a]
            r == IF StartsWithAt(text, alt, pos)
                 THEN MatchItems(items, i + 1, text, pos + Len(alt),
                          IF it.kind = "grp" THEN Append(caps, alt) ELSE caps)
                 ELSE [ok |-> FALSE, caps |-> caps]
        IN IF r.ok THEN r ELSE MatchAlts(items, i, a + 1, text, pos, caps)

\* Number of capturing groups of a pattern.
NumGroups(items) ==
    Cardinality({i \in 1..Len(items) : items[i].kind = "grp"})

(***************************************************************************)
(* Endpoint (src/lib/endpoint.js) and EndpointMapper (src/unnamed/part_016)*)
(***************************************************************************)

\* new Endpoint(uriPattern, def): numUriParams is the length of the match of
\* '^(?:' + uriPattern + ')?$' against the empty string, minus one.
Endpoint(uriPattern, def) ==
    [uriPattern |-> uriPattern, numUriParams |-> NumGroups(uriPattern),
     handler |-> def]

RECURSIVE PatternIndex(_, _)
\* The value of patternIndex when endpoint number n is added to the index:
\* the sum of numUriParams + 1 over the endpoints before it.
PatternIndex(endpoints, n) ==
    IF n = 1 THEN 0
    ELSE PatternIndex(endpoints, n - 1) + endpoints[n - 1].numUriParams + 1

\* this._endpointsIndex: a sparse array, here the function from the indexes
\* that hold an endpoint to the number of that endpoint.
EndpointsIndex(endpoints) ==
    [p \in {PatternIndex(endpoints, n) : n \in 1..Len(endpoints)} |->
        CHOOSE n \in 1..Len(endpoints) : PatternIndex(endpoints, n) = p]

\* this._endpointsIndex.length
IndexLength(endpoints) ==
    IF Len(endpoints) = 0 THEN 0
    ELSE PatternIndex(endpoints, Len(endpoints)) + 1

Repeat(x, n) == [i \in 1..n |-> x]

RECURSIVE ExecFrom(_, _, _, _)
\* The alternation (?:(p1)|(p2)|...)$ tried from branch n on: the first branch
\* that matches the whole text sets its own groups; all other groups are absent.
ExecFrom(endpoints, n, text, total) ==
    IF n > Len(endpoints) THEN [ok |-> FALSE, groups |-> <<>>]
    ELSE LET r == MatchItems(endpoints[n].uriPattern, 1, text, 1, <<>>)
             before == PatternIndex(endpoints, n)
         IN IF r.ok
            THEN [ok |-> TRUE,
                  groups |-> Repeat(Absent, before) \o <<text>> \o r.caps
                             \o Repeat(Absent, total - before - 1 - Len(r.caps))]
            ELSE ExecFrom(endpoints, n + 1, text, total)

\* Number of capturing groups of the master pattern.
TotalGroups(endpoints) ==
    IF Len(endpoints) = 0 THEN 0
    ELSE PatternIndex(endpoints, Len(endpoints))
         + endpoints[Len(endpoints)].numUriParams + 1

\* this._masterEndpointsURIPattern.exec(pathname): null (ok = FALSE) or the
\* match array; match[i] of the code is groups[i] here for i >= 1, match[0] is
\* all.  The pattern is "^" + prefix + "(?:" + "(p1)|(p2)..." + ")$".
MasterExec(endpoints, prefix, pathname) ==
    IF ~StartsWithAt(pathname, prefix, 1) THEN [ok |-> FALSE, groups |-> <<>>]
    ELSE ExecFrom(endpoints, 1,
                  SubSeq(pathname, Len(prefix) + 1, Len(pathname)),
                  TotalGroups(endpoints))

\* JavaScript truthiness of an element of the match array.
Truthy(g) == g # Absent /\ g # <<>>

\* match[i] for any index i >= 1 (undefined beyond the array)
MatchAt(groups, i) == IF i \in 1..Len(groups) THEN groups[i] ELSE Absent

\* this._endpointsIndex.findIndex((endpoint, i) => match[i + 1]): the first
\* index below the array's length, holes included, or -1.
FindIndex(endpoints, groups) ==
    LET hits == {i \in 0..(IndexLength(endpoints) - 1) :
                    Truthy(MatchAt(groups, i + 1))}
    IN IF hits = {} THEN -1
       ELSE CHOOSE i \in hits : \A j \in hits : i <= j

\* match.slice(from, to) of the code's indexes
MatchSlice(groups, from, to) ==
    [i \in 1..(IF to > from THEN to - from ELSE 0) |-> MatchAt(groups, from + i - 1)]

\* EndpointMapper.lookup(requestUrl): [result |-> "null"], [result |-> "throw"]
\* (TypeError: the index holds no endpoint at endpointInd) or the match.
\* requestUrl.path is the pathname followed by the query string.
MapperLookup(endpoints, prefix, pathname, search) ==
    LET m == MasterExec(endpoints, prefix, pathname) IN
    IF ~m.ok THEN [result |-> "null"]
    ELSE LET endpointInd == FindIndex(endpoints, m.groups)
             index == EndpointsIndex(endpoints)
         IN IF endpointInd \notin DOMAIN index THEN [result |-> "throw"]
            ELSE LET endpoint == endpoints[index[endpointInd]] IN
                 [result |-> "match",
                  endpoint |-> index[endpointInd],
                  handler |-> endpoint.handler,
                  resourceUri |-> SubSeq(pathname \o search, Len(prefix) + 1,
                                         Len(pathname) + Len(search)),
                  uriParams |-> MatchSlice(m.groups, endpointInd + 2,
                                   endpointInd + 2 + endpoint.numUriParams)]


(***************************************************************************)
(* EndpointCallResponse (src/lib/endpoint-call-response.js) and the header *)
(* value handlers.  A header value is a sequence of strings: one string    *)
(* for a header with the default handler, the elements of the list for a   *)
(* list header (rendered joined by ', ').                                  *)
(***************************************************************************)

\* null / undefined given as a header value
NullValue == <<"null">>

\* Application constructor: this._headerValueHandlers
HeadersListHeaders == {"vary", "access-control-allow-headers",
                       "access-control-expose-headers"}
MethodsListHeaders == {"allow", "access-control-allow-methods"}

\* String.prototype.toUpperCase on the method tokens of the model
ToUpperCase(t) ==
    CASE t = "get" -> "GET"
      [] t = "post" -> "POST"
      [] OTHER -> t

\* util.headerCase on the header names of the model
HeaderCase(t) ==
    CASE t = "origin" -> "Origin"
      [] t = "x-custom" -> "X-Custom"
      [] t = "X-CUSTOM" -> "X-Custom"
      [] t = "content-type" -> "Content-Type"
      [] OTHER -> t

\* String.prototype.toLowerCase on the header names of the model
ToLowerCase(t) ==
    CASE t = "X-Custom" -> "x-custom"
      [] t = "X-CUSTOM" -> "x-custom"
      [] t = "Content-Type" -> "content-type"
      [] t = "Origin" -> "origin"
      [] t = "GET" -> "get"
      [] t = "POST" -> "post"
      [] t = "Allow" -> "allow"
      [] t = "ALLOW" -> "allow"
      [] t = "Vary" -> "vary"
      [] t = "VARY" -> "vary"
      [] OTHER -> t

Contains(seq, x) == \E i \in 1..Len(seq) : seq[i] = x

RECURSIVE AddAllRepeating(_, _, _)
\* The handlers' value(v) with an Array in place of the Set: every element
\* is appended
AddAllRepeating(old, elements, methods) ==
    IF elements = <<>> THEN old
    ELSE AddAllRepeating(Append(old, IF methods THEN ToUpperCase(Head(elements))
                                     ELSE HeaderCase(Head(elements))),
                         Tail(elements), methods)

RECURSIVE AddAll(_, _, _)
\* MethodsListHeaderValueHandler.value(v) / HeadersListHeaderValueHandler.value(v):
\* each element of the comma-separated value, normalised, is added to the Set.
AddAll(old, elements, methods) ==
    IF elements = <<>> THEN old
    ELSE LET e == IF methods THEN ToUpperCase(Head(elements))
                  ELSE HeaderCase(Head(elements))
         IN AddAll(IF Contains(old, e) THEN old ELSE Append(old, e),
                   Tail(elements), methods)

\* headerValueHandler(name).value(v) applied to the handler's current value
HandlerValue(name, old, v) ==
    IF name \in MethodsListHeaders THEN AddAll(old, v, TRUE)
    ELSE IF name \in HeadersListHeaders THEN AddAll(old, v, FALSE)
    ELSE v

\* new EndpointCallResponse(app, statusCode); entities <<>> is this._entities
\* undefined.
NewResponse(statusCode) ==
    [statusCode |-> statusCode, headers |-> <<>>, entities |-> <<>>]

\* The operators below are applied in long chains: each evaluates the
\* response it is given once, as the one element v of {response}.

\* header(name, value, keepExisting) with the test of keepExisting left out
ResponseHeaderAlways(response, name, value, keepExisting) ==
    LET h == response.headers IN
    IF value = NullValue
    THEN [response EXCEPT !.headers = Restrict(h, DOMAIN h \ {name})]
    ELSE [response EXCEPT !.headers =
             [x \in DOMAIN h \cup {name} |->
                 IF x # name THEN h[x]
                 ELSE HandlerValue(name, IF name \in DOMAIN h THEN h[name]
                                         ELSE <<>>, value)]]

\* EndpointCallResponse.header(name, value, keepExisting); name in lower case
ResponseHeader(response, name, value, keepExisting) ==
    LET header(r) ==
            LET h == r.headers IN
            IF value = NullValue
            THEN [r EXCEPT !.headers = Restrict(h, DOMAIN h \ {name})]
            ELSE IF name \notin DOMAIN h
            THEN [r EXCEPT !.headers =
                     [x \in DOMAIN h \cup {name} |->
                         IF x = name THEN HandlerValue(name, <<>>, value)
                         ELSE h[x]]]
            ELSE IF keepExisting THEN r
            ELSE [r EXCEPT !.headers[name] =
                               HandlerValue(name, h[name], value)]
    IN CHOOSE y \in {header(v) : v \in {response}} : TRUE

SetHeader(response, name, value) == ResponseHeader(response, name, value, FALSE)

\* EndpointCallResponse.header / HeadersSet.header with a name in any case:
\* const nameLC = name.toLowerCase()
Header(response, name, value, keepExisting) ==
    ResponseHeader(response, ToLowerCase(name), value, keepExisting)

\* EndpointCallResponse.entity(data, contentType, filename)
ResponseEntity(response, data, contentType, filename) ==
    LET entity(r) ==
            [r EXCEPT !.entities = Append(@,
                [data |-> data,
                 contentType |-> IF contentType = "" THEN "application/json"
                                 ELSE contentType,
                 disposition |->
                     IF filename = "" THEN ""
                     ELSE IF Len(r.entities) > 0 THEN "attachment"
                     ELSE "inline",
                 filename |-> filename])]
    IN CHOOSE y \in {entity(v) : v \in {response}} : TRUE

\* EndpointCallResponse.hasStreams
HasStreams(response) ==
    \E i \in 1..Len(response.entities) :
        response.entities[i].data.kind = "stream"

\* EndpointCallResponse.hasHeader(name)
HasHeader(response, name) == name \in DOMAIN response.headers

\* Entity data: an object, a Buffer or a stream.Readable
ObjectData(v) == [kind |-> "object", value |-> <<v>>]
BufferData(bytes) == [kind |-> "buffer", value |-> bytes]
StreamData == [kind |-> "stream", value |-> <<>>]

\* The error entity {errorCode, errorMessage} of the pipeline's own responses
ErrorResponse(statusCode, errorCode, errorMessage) ==
    ResponseEntity(NewResponse(statusCode),
                   ObjectData(errorMessage), "", "")

\* JsonMarshaller.serialize: new Buffer(JSON.stringify(obj))
Serialize(value) == <<"{">> \o value \o <<"}">>

\* The services registered under "marshaller:<content type>"
Marshallers == {"application/json"}

\* EndpointCall._getResponseEntityDataBuffer(entity): the buffer, or a
\* TypeError when no marshaller is registered for the entity's content type.
GetResponseEntityDataBuffer(entity) ==
    IF entity.data.kind = "buffer"
    THEN [threw |-> FALSE, buf |-> entity.data.value]
    ELSE IF entity.contentType \in Marshallers
    THEN [threw |-> FALSE, buf |-> Serialize(entity.data.value)]
    ELSE [threw |-> TRUE, buf |-> <<>>]


(***************************************************************************)
(* Application and EndpointCall (src/unnamed/part_013)                     *)
(***************************************************************************)
\* The number of 'data' events of a request body explored
MaxChunks == 2

\* X2_MAX_REQUEST_SIZE of the configurations explored, in bytes
MaxRequestSize == 2

\* this._knownHttpMethods
KnownHttpMethodsAndTrace ==
    {"OPTIONS", "GET", "HEAD", "POST", "PUT", "PATCH", "DELETE", "TRACE"}
KnownHttpMethods == {"OPTIONS", "GET", "HEAD", "POST", "PUT", "PATCH", "DELETE"}

\* this._cacheableStatusCodes
CacheableStatusCodes ==
    {200, 203, 204, 206, 300, 301, 304, 308, 404, 405, 410, 414, 501}

\* this._simpleResponseHeaders
SimpleResponseHeaders == {"cache-control", "content-language", "content-type",
                          "expires", "last-modified", "pragma"}

\* The origins the configured patterns match (RegExp.test), and one they don't
SecureOrigins == {"https://secure.example", "https://both.example"}
PublicOrigins == {"https://public.example", "https://both.example"}
Origins == {"", "https://evil.example", "https://both.example",
            "https://public.example"}

\* The endpoint URI patterns registered in the configurations explored
PatA == <<Lit(<<"/", "a">>)>>
PatAId == <<Lit(<<"/", "a", "/">>), Grp(<< <<"1">>, <<"2">> >>)>>
PatBOpt == <<Lit(<<"/", "b">>), OptGrp(<< <<"/", "1">> >>)>>
PatRootOpt == <<OptGrp(<< <<"/">> >>)>>
PatAOrB == <<Grp(<< <<"/", "a">>, <<"/", "b">> >>)>>
PatAOpt == <<OptGrp(<< <<"/", "a">> >>)>>

\* Application.endpoint(uriPattern, def), called for each pattern in order
Endpoints(patterns) == [n \in 1..Len(patterns) |-> Endpoint(patterns[n], n)]

Prefix == <<"/", "p">>

\* Application constructor: the public pattern is read only when the secure
\* pattern is configured.
AppConstructor(endpoints, prefix, secure, public) ==
    [endpoints |-> endpoints, prefix |-> prefix,
     allowedSecureOriginsPattern |-> secure,
     allowedPublicOriginsPattern |-> secure /\ public,
     maxRequestSize |-> MaxRequestSize]

NoRequest == [method |-> "", pathname |-> <<>>, search |-> <<>>, origin |-> "",
              requestMethod |-> "", requestHeaders |-> ""]
NoHandler == [isPublic |-> FALSE, exposedResponseHeaders |-> <<>>]
NoMatch == [result |-> "null"]
NoAuthResult == [actor |-> "none", challenge |-> ""]

\* new EndpointCall(app, httpRequest, httpResponse)
NewCall == [endpointMatch |-> NoMatch, allowedMethods |-> <<>>,
            authResult |-> NoAuthResult, responseActor |-> "none",
            validateRequestEntity |-> FALSE, ctx |-> <<>>]

NoEntityIn == [contentLength |-> -1, bytesRead |-> 0, dataBufs |-> 0]
NoHttp == [heads |-> 0, statusCode |-> 0, headers |-> <<>>, body |-> <<>>,
           ends |-> 0]
NoOut == [bufs |-> <<>>, curBufInd |-> 0]
NoLog == [getAllowedMethods |-> 0, authenticate |-> 0, isAllowed |-> 0,
          isPublic |-> 0, getRequestEntityValidator |-> 0, handleCall |-> 0,
          addResponseAuthInfo |-> 0, denied |-> FALSE, errors |-> {},
          swallowed |-> {}, sent |-> <<>>, result |-> "", validate |-> 0,
          entities |-> -1]

\* The Basic authenticator's challenge
Challenge == "Basic realm=\"Web Service\", charset=\"UTF-8\""

X2_500 == ErrorResponse(500, "X2-500", "Internal server error.")

\* The CORS decision with the secure pattern tested before the public one
AllowedOriginSecureFirst(origin, matched, h) ==
    IF ~cfg.allowedSecureOriginsPattern THEN "ALLOWED_ANY"
    ELSE IF origin \in SecureOrigins THEN "ALLOWED_SPECIFIC_PLUS_CRED"
    ELSE IF /\ cfg.allowedPublicOriginsPattern
            /\ matched
            /\ h.isPublic
            /\ origin \in PublicOrigins
    THEN "ALLOWED_SPECIFIC"
    ELSE "DISALLOWED"

\* Mutant: a public origin on a public endpoint is allowed credentials
AllowedOriginPublicWithCredentials(origin, matched, h) ==
    IF /\ cfg.allowedPublicOriginsPattern
       /\ matched
       /\ h.isPublic
       /\ origin \in PublicOrigins
    THEN "ALLOWED_SPECIFIC_PLUS_CRED"
    ELSE IF ~cfg.allowedSecureOriginsPattern THEN "ALLOWED_ANY"
    ELSE IF origin \in SecureOrigins THEN "ALLOWED_SPECIFIC_PLUS_CRED"
    ELSE "DISALLOWED"

\* The CORS decision of _sendResponse and _sendOptionsResponse
AllowedOrigin(origin, matched, h) ==
    IF /\ cfg.allowedPublicOriginsPattern
       /\ matched
       /\ h.isPublic
       /\ origin \in PublicOrigins
    THEN "ALLOWED_SPECIFIC"
    ELSE IF ~cfg.allowedSecureOriginsPattern THEN "ALLOWED_ANY"
    ELSE IF origin \in SecureOrigins THEN "ALLOWED_SPECIFIC_PLUS_CRED"
    ELSE "DISALLOWED"

\* handler.isPublic is reached in the decision's first condition
CallsIsPublic(matched) == cfg.allowedPublicOriginsPattern /\ matched

RECURSIVE ExposeHeaders(_, _)
\* .filter(h => !app._simpleResponseHeaders.has(h.toLowerCase()))
\* .forEach(h => response.header('Access-Control-Expose-Headers', h))
ExposeHeaders(response, hs) ==
    IF hs = <<>> THEN response
    ELSE ExposeHeaders(
            IF ToLowerCase(Head(hs)) \in SimpleResponseHeaders THEN response
            ELSE SetHeader(response, "access-control-expose-headers",
                           <<Head(hs)>>),
            Tail(hs))

\* _sendResponse setting Vary and no CORS header
WithCorsVaryOnly(response, rq, matched, h) ==
    SetHeader(response, "vary", <<"Origin">>)

\* _sendResponse answering a disallowed origin 403
WithCorsEnforced(response, rq, matched, h) ==
    LET r0 == SetHeader(response, "vary", <<"Origin">>)
    IN IF rq.origin # "" /\ AllowedOrigin(rq.origin, matched, h) = "DISALLOWED"
       THEN [r0 EXCEPT !.statusCode = 403]
       ELSE r0

\* _sendResponse, lines 928-964: Vary and the CORS headers
WithCors(response, rq, matched, h) ==
    LET r0 == SetHeader(response, "vary", <<"Origin">>)
        origin == rq.origin
        allowed == AllowedOrigin(origin, matched, h)
    IN IF origin = "" THEN r0
       ELSE LET r1 ==
                CASE allowed = "ALLOWED_SPECIFIC" ->
                        SetHeader(r0, "access-control-allow-origin", <<origin>>)
                  [] allowed = "ALLOWED_ANY" ->
                        SetHeader(r0, "access-control-allow-origin", <<"*">>)
                  [] allowed = "ALLOWED_SPECIFIC_PLUS_CRED" ->
                        SetHeader(
                            SetHeader(r0, "access-control-allow-origin",
                                      <<origin>>),
                            "access-control-allow-credentials", <<"true">>)
                  [] OTHER -> r0
            IN IF allowed = "DISALLOWED" THEN r1
               ELSE ExposeHeaders(r1,
                        IF matched THEN h.exposedResponseHeaders
                        ELSE <<>>)

\* _sendResponse, lines 971-980: default response cache control
WithCacheControl(response, rq) ==
    LET control(r) ==
            IF /\ rq.method \in {"GET", "HEAD"}
               /\ r.statusCode \in CacheableStatusCodes
               /\ ~HasHeader(r, "cache-control")
            THEN SetHeader(SetHeader(SetHeader(r,
                     "cache-control", <<"no-cache">>),
                     "expires", <<"0">>),
                     "pragma", <<"no-cache">>)
            ELSE r
    IN CHOOSE y \in {control(v) : v \in {response}} : TRUE

\* _sendResponse, lines 985-996: the content type of the response
WithContentType(response) ==
    LET type(r) ==
            IF Len(r.entities) = 1
            THEN LET e == r.entities[1] IN
                 IF e.disposition = ""
                 THEN SetHeader(r, "content-type", <<e.contentType>>)
                 ELSE SetHeader(
                          SetHeader(r, "content-type", <<e.contentType>>),
                          "content-disposition", <<e.disposition, e.filename>>)
            ELSE \* this._boundary is undefined on the EndpointCall
                 SetHeader(r, "content-type",
                           <<"multipart/mixed; boundary=undefined">>)
    IN CHOOSE y \in {type(v) : v \in {response}} : TRUE

\* EndpointCall._sendResponse(response) up to the write loop, for request rq
\* with this._endpointMatch set or not (matched) to handler h.  The result:
\*   threw    an exception left _sendResponse (nothing was written before it)
\*   head     <<>> or <<[statusCode, headers]>>, the arguments of writeHead
\*   bufs     the body buffers to write
\*   end      end() is called right after writeHead (no body)
SendResponse(response, rq, matched, h) ==
    LET failed == [threw |-> TRUE, head |-> <<>>, bufs |-> <<>>, end |-> FALSE]
        head(r) == <<[statusCode |-> r.statusCode, headers |-> r.headers]>>
        \* lines 998-1072, r with its content type set
        transmit(r) ==
            IF rq.method = "HEAD"
            THEN [threw |-> FALSE, head |-> head(r), bufs |-> <<>>,
                  end |-> TRUE]
            ELSE IF HasStreams(r)
            THEN \* TODO in the code: nothing is written
                 [threw |-> FALSE, head |-> <<>>, bufs |-> <<>>, end |-> FALSE]
            ELSE IF Len(r.entities) > 1
            THEN \* partHead is declared nowhere: ReferenceError at the
                 \* first part
                 failed
            ELSE LET b == GetResponseEntityDataBuffer(r.entities[1]) IN
                 IF b.threw THEN failed
                 ELSE [threw |-> FALSE,
                       head |-> head(SetHeader(r, "content-length",
                                               <<ToString(Len(b.buf))>>)),
                       bufs |-> <<b.buf>>, end |-> FALSE]
        \* lines 983-996, r with its CORS and cache control headers set;
        \* get entities(): Array.from(this._entities) throws a TypeError
        \* when no entity was added
        entities(r) ==
            IF r.entities = <<>> THEN failed
            ELSE CHOOSE y \in {transmit(v) : v \in {WithContentType(r)}} : TRUE
    IN CHOOSE y \in {entities(v) : v \in
                {WithCacheControl(WithCors(response, rq, matched, h), rq)}} :
            TRUE

\* Calls of addResponseAuthInfo and isPublic made by one _sendResponse
SendCalls(l, response, rq, matched) ==
    [l EXCEPT !.sent = Append(@, response.statusCode),
              !.addResponseAuthInfo = @ + 1,
              !.isPublic = @ + (IF rq.origin # "" /\ CallsIsPublic(matched)
                                THEN 1 ELSE 0)]


\* Mutant: the index is advanced only after a write that returned true.
WriteHttpResponseRetrying(h, o, fullAt) ==
    LET numBufs == Len(o.bufs)
        last == IF fullAt > o.curBufInd /\ fullAt <= numBufs THEN fullAt
                ELSE numBufs
        paused == fullAt > o.curBufInd /\ fullAt <= numBufs
    IN [http |-> [h EXCEPT !.body = @ \o SubSeq(o.bufs, o.curBufInd + 1, last),
                           !.ends = @ + (IF paused THEN 0 ELSE 1)],
        out |-> [o EXCEPT !.curBufInd = IF paused THEN last - 1 ELSE last],
        pc |-> IF paused THEN "drain" ELSE "quiet"]

\* writeHttpResponse(): buffers are written from curBufInd on until write()
\* returns false (at buffer number fullAt; 0: never), then the loop waits for
\* 'drain'; after the last buffer end() is called.
WriteHttpResponse(h, o, fullAt) ==
    LET numBufs == Len(o.bufs)
        last == IF fullAt > o.curBufInd /\ fullAt <= numBufs THEN fullAt
                ELSE numBufs
        paused == fullAt > o.curBufInd /\ fullAt <= numBufs
    IN [http |-> [h EXCEPT !.body = @ \o SubSeq(o.bufs, o.curBufInd + 1, last),
                           !.ends = @ + (IF paused THEN 0 ELSE 1)],
        out |-> [o EXCEPT !.curBufInd = last],
        pc |-> IF paused THEN "drain" ELSE "quiet"]

\* httpResponse.writeHead(statusCode, headers)
WriteHead(h, head) ==
    [h EXCEPT !.heads = @ + 1, !.statusCode = head.statusCode,
              !.headers = head.headers]

\* The effect of a _sendResponse result on the HTTP response
Transmit(h, r, fullAt) ==
    IF r.head = <<>>
    THEN [http |-> h, out |-> NoOut, pc |-> "quiet"]
    ELSE IF r.end
    THEN [http |-> [WriteHead(h, r.head[1]) EXCEPT !.ends = @ + 1],
          out |-> NoOut, pc |-> "quiet"]
    ELSE WriteHttpResponse(WriteHead(h, r.head[1]),
                           [bufs |-> r.bufs, curBufInd |-> 0], fullAt)

\* this._sendResponse(response) called inside one of the try blocks of
\* process, _process1, _process2 and _process3: an exception it throws is
\* caught and answered by _sendInternalServerErrorResponse.  An exception of
\* that second _sendResponse leaves the call unanswered.
Deliver(response, rq, matched, h, l, fullAt) ==
    \E first \in {SendResponse(response, rq, matched, h)} :
    \E second \in {IF first.threw THEN SendResponse(X2_500, rq, matched, h)
                   ELSE first} :
    \E t \in {IF ~second.threw THEN Transmit(http, second, fullAt)
              ELSE [http |-> http, out |-> NoOut, pc |-> "quiet"]} :
        /\ http' = t.http
        /\ out' = t.out
        /\ pc' = t.pc
        /\ log' = IF first.threw
                  THEN SendCalls(
                           [SendCalls(l, response, rq, matched)
                               EXCEPT !.errors = @ \cup {"sendResponse"}],
                           X2_500, rq, matched)
                  ELSE SendCalls(l, response, rq, matched)

RECURSIVE AllowHeaders(_, _)
\* this._allowedMethods.forEach(method => response.header('Allow',
\*     (method === 'GET' ? 'GET, HEAD' : method)))
AllowHeaders(r, ms) ==
    IF ms = <<>> THEN r
    ELSE AllowHeaders(SetHeader(r, "allow",
                          IF Head(ms) = "GET" THEN <<"GET", "HEAD">>
                          ELSE <<Head(ms)>>),
                      Tail(ms))

\* The 405 response without response.header('Allow', 'OPTIONS')
MethodNotAllowedWithoutOptions(allowed) ==
    ResponseEntity(AllowHeaders(NewResponse(405), allowed),
                   ObjectData("Method not supported by the API endpoint."),
                   "", "")

\* The 405 response of process(): Allow lists the allowed methods and OPTIONS
MethodNotAllowed(allowed) ==
    ResponseEntity(SetHeader(AllowHeaders(NewResponse(405), allowed),
                                "allow", <<"OPTIONS">>),
                      ObjectData("Method not supported by the API endpoint."),
                      "", "")

\* EndpointCall._sendOptionsResponse(): the head it writes
OptionsResponse(rq, allowed, h) ==
    LET r0 == SetHeader(SetHeader(SetHeader(
                  AllowHeaders(NewResponse(200), allowed),
                  "allow", <<"OPTIONS">>),
                  "content-length", <<ToString(0)>>),
                  "vary", <<"Origin">>)
        allowedOrigin == AllowedOrigin(rq.origin, TRUE, h)
        r1 == SetHeader(r0, "access-control-allow-origin",
                        IF allowedOrigin = "ALLOWED_ANY" THEN <<"*">>
                        ELSE <<rq.origin>>)
        r2 == IF allowedOrigin = "ALLOWED_SPECIFIC_PLUS_CRED"
              THEN SetHeader(r1, "access-control-allow-credentials", <<"true">>)
              ELSE r1
        r3 == SetHeader(SetHeader(r2,
                  "access-control-max-age", <<ToString(20 * 24 * 3600)>>),
                  "access-control-allow-method", <<rq.requestMethod>>)
        r4 == IF rq.requestHeaders # ""
              THEN SetHeader(r3, "access-control-allow-headers",
                             <<rq.requestHeaders>>)
              ELSE r3
    IN IF rq.origin # "" /\ rq.requestMethod # ""
          /\ allowedOrigin # "DISALLOWED"
       THEN r4 ELSE r0

\* process(): if (method === 'OPTIONS')
IsOptionsRequestNever(method) == FALSE
IsOptionsRequest(method) == method = "OPTIONS"

\* process(): method === 'HEAD' ? 'GET' : method
NormalizedMethodAsIs(method) == method
NormalizedMethod(method) == IF method = "HEAD" THEN "GET" ELSE method

\* process(): the response when the lookup found no endpoint
NoEndpointResponseAs501 ==
    ErrorResponse(501, "X2-501-1", "Unsupported HTTP method.")
NoEndpointResponse ==
    ErrorResponse(404, "X2-404-1", "No API endpoint at this URI.")

\* _process1(): if (this._authResult.actor === null)
CouldNotAuthenticateNever(authResult) == FALSE
CouldNotAuthenticate(authResult) == authResult.actor = "null"

\* The requests explored
Methods == {"GET", "HEAD", "POST", "OPTIONS", "TRACE"}
Urls == { [pathname |-> <<"/", "a">>, search |-> <<"?", "q">>],
          [pathname |-> <<"/", "a", "/", "2">>, search |-> <<>>],
          [pathname |-> <<"/", "b">>, search |-> <<>>],
          [pathname |-> <<"/", "c">>, search |-> <<>>],
          [pathname |-> <<"/", "p">>, search |-> <<>>],
          [pathname |-> <<"/", "p", "/", "a">>, search |-> <<>>] }
Preflights == { [requestMethod |-> "", requestHeaders |-> ""],
                [requestMethod |-> "POST", requestHeaders |-> ""],
                [requestMethod |-> "POST", requestHeaders |-> "x-custom"] }

\* The endpoint handler.  Endpoint's constructor installs a placeholder
\* (TODO: create handler) that allows GET, POST, PATCH and DELETE, is not
\* public, allows every actor, returns a validator and resolves an object.
\* The call is modelled against any handler of the EndpointHandler interface
\* (src/lib/index.js), the placeholder's answers among them.

\* What the matched handler answers: isPublic(), exposedResponseHeaders
Handlers == { [isPublic |-> FALSE, exposedResponseHeaders |-> <<>>],
              [isPublic |-> TRUE,
               exposedResponseHeaders |-> <<"X-Custom", "Content-Type">>] }

\* What handler.getAllowedMethods() does: it throws, or returns a Set (given
\* in insertion order)
AllowedMethodsResults ==
    {[threw |-> TRUE, methods |-> <<>>]} \cup
    [threw : {FALSE},
     methods : {<<"GET">>, <<"GET", "POST", "PATCH", "DELETE">>,
                <<"POST", "OPTIONS">>, <<"HEAD">>}]

\* Application.respond(httpRequest, httpResponse), with the EndpointCall's
\* constructor and process()
Respond(method, u, origin, pre, h, gam, fullAt) ==
    \E m \in {MapperLookup(cfg.endpoints, cfg.prefix, u.pathname, u.search)} :
    LET rq == [method |-> method, pathname |-> u.pathname,
               search |-> u.search, origin |-> origin,
               requestMethod |-> pre.requestMethod,
               requestHeaders |-> pre.requestHeaders]
        matched == m.result = "match"
        known == method \in KnownHttpMethods
        got == matched /\ known /\ ~gam.threw
        allowed == gam.methods
        hd == IF matched THEN h ELSE NoHandler
        l0 == [log EXCEPT
                 !.getAllowedMethods = @ + (IF matched /\ known THEN 1 ELSE 0),
                 !.errors = @ \cup (IF m.result = "throw" THEN {"lookup"}
                                    ELSE IF matched /\ known /\ ~got
                                    THEN {"getAllowedMethods"} ELSE {})]
    IN
    /\ pc = "idle"
    /\ req' = rq
    /\ handler' = hd
    /\ entityIn' = entityIn
    /\ UNCHANGED <<cfg, appShutdown, cacheVars>>
    /\ IF appShutdown
       THEN /\ http' = [http EXCEPT !.heads = @ + 1, !.statusCode = 503,
                                    !.ends = @ + 1]
            /\ pc' = "quiet"
            /\ UNCHANGED <<call, out, log>>
       ELSE
       /\ call' = [call EXCEPT
                     !.endpointMatch = IF matched THEN m ELSE NoMatch,
                     !.allowedMethods = IF got THEN allowed ELSE <<>>]
       /\ CASE m.result = "throw" ->
                    Deliver(X2_500, rq, FALSE, hd, l0, fullAt)
            [] m.result = "null" ->
                    Deliver(NoEndpointResponse, rq, FALSE, hd, l0, fullAt)
            [] matched /\ ~known ->
                    Deliver(ErrorResponse(501, "X2-501-1",
                                          "Unsupported HTTP method."),
                            rq, TRUE, hd, l0, fullAt)
            [] matched /\ known /\ ~got ->
                    Deliver(X2_500, rq, TRUE, hd, l0, fullAt)
            [] got /\ IsOptionsRequest(method) ->
                    \E r \in {OptionsResponse(rq, allowed, hd)} :
                    /\ http' = [WriteHead(http, [statusCode |-> r.statusCode,
                                                 headers |-> r.headers])
                                EXCEPT !.ends = @ + 1]
                    /\ pc' = "quiet"
                    /\ out' = out
                    /\ log' = [l0 EXCEPT !.isPublic = @ +
                                 (IF origin # "" /\ pre.requestMethod # ""
                                     /\ cfg.allowedPublicOriginsPattern
                                  THEN 1 ELSE 0)]
            [] got /\ ~IsOptionsRequest(method)
                   /\ ~Contains(allowed, NormalizedMethod(method)) ->
                    Deliver(MethodNotAllowed(allowed), rq, TRUE, hd, l0, fullAt)
            [] OTHER ->
                    \* authenticator.authenticate(httpRequest, requestUrl)
                    /\ pc' = "auth"
                    /\ log' = [l0 EXCEPT !.authenticate = @ + 1]
                    /\ UNCHANGED <<http, out>>

\* What authenticate() resolves with: no actor and a challenge, or an actor
AuthResults == {[actor |-> "null", challenge |-> Challenge],
                [actor |-> "alice", challenge |-> ""]}

\* Content-Type request headers ("" is no header)
ContentTypes == {"", "application/json", "Application/JSON; charset=UTF-8",
                 "text/plain", "multipart/form-data; boundary=x"}

\* /^multipart\//i.test(topCType)
IsMultipart(topCType) == topCType = "multipart/form-data; boundary=x"

\* topCType.split(/;\s*/)[0].toLowerCase()
TopCTypeKey(topCType) ==
    CASE topCType = "" -> "application/octet-stream"
      [] topCType = "Application/JSON; charset=UTF-8" -> "application/json"
      [] OTHER -> topCType

\* Content-Length request headers: -1 is no header (Number(undefined) is NaN)
ContentLengths == {-1, 0, MaxRequestSize, MaxRequestSize + 1}

\* _process2 called with null in place of the request entity
Process2WithoutEntity(entity, c, l, threw, fullAt) ==
    /\ call' = [c EXCEPT !.ctx = <<[actor |-> c.authResult.actor,
                                    requestEntity |-> "null"]>>]
    /\ pc' = "handler"
    /\ log' = [l EXCEPT !.handleCall = @ + 1]
    /\ UNCHANGED <<http, out>>

\* _process2(requestEntity, requestAttachments) with handleCall returning a
\* promise (or a value, which Promise.resolve wraps) or throwing.  The function
\* getRequestEntityValidator returned is not called ("TODO: validate entity"):
\* log.validate stays as it is.
Process2(entity, c, l, threw, fullAt) ==
    /\ call' = [c EXCEPT !.ctx = <<[actor |-> c.authResult.actor,
                                    requestEntity |-> entity]>>]
    /\ IF threw
       THEN Deliver(X2_500, req, TRUE, handler,
                    [l EXCEPT !.handleCall = @ + 1,
                              !.errors = @ \cup {"handleCall"}], fullAt)
       ELSE /\ pc' = "handler"
            /\ log' = [l EXCEPT !.handleCall = @ + 1]
            /\ UNCHANGED <<http, out>>

\* _process1(authResult): the authentication promise is fulfilled
AuthResolves(authResult, isAllowed, validator, cType, cLength, hcThrew, fullAt) ==
    LET c == [call EXCEPT !.authResult = authResult,
                          !.responseActor = authResult.actor]
        l0 == [log EXCEPT !.isAllowed = @ + 1]
        c1 == [c EXCEPT !.validateRequestEntity = validator = "some"]
        \* handler.getRequestEntityValidator && handler.getRequest...()
        l1 == [l0 EXCEPT !.getRequestEntityValidator =
                            @ + (IF validator = "absent" THEN 0 ELSE 1)]
    IN
    /\ pc = "auth"
    /\ UNCHANGED <<cfg, appShutdown, req, handler, cacheVars>>
    /\ CASE isAllowed = "throw" ->
                /\ call' = c
                /\ entityIn' = entityIn
                /\ Deliver(X2_500, req, TRUE, handler,
                           [l0 EXCEPT !.errors = @ \cup {"isAllowed"}], fullAt)
         [] isAllowed = "false" /\ CouldNotAuthenticate(authResult) ->
                /\ call' = c
                /\ entityIn' = entityIn
                /\ Deliver(SetHeader(ErrorResponse(401, "X2-401-1",
                                                   "Authentication required."),
                                     "www-authenticate",
                                     <<authResult.challenge>>),
                           req, TRUE, handler,
                           [l0 EXCEPT !.denied = TRUE], fullAt)
         [] isAllowed = "false" /\ ~CouldNotAuthenticate(authResult) ->
                /\ call' = c
                /\ entityIn' = entityIn
                /\ Deliver(ErrorResponse(403, "X2-403-1",
                                         "Insufficient permissions."),
                           req, TRUE, handler,
                           [l0 EXCEPT !.denied = TRUE], fullAt)
         [] isAllowed = "true" /\ validator = "throw" ->
                /\ call' = c
                /\ entityIn' = entityIn
                /\ Deliver(X2_500, req, TRUE, handler,
                           [l1 EXCEPT !.errors =
                                @ \cup {"getRequestEntityValidator"}], fullAt)
         [] isAllowed = "true" /\ validator \in {"absent", "none"} ->
                /\ entityIn' = entityIn
                /\ Process2("null", c1, l1, hcThrew, fullAt)
         [] isAllowed = "true" /\ validator = "some" /\ IsMultipart(cType) ->
                \* TODO in the code: nothing is read and nothing is sent
                /\ call' = c1
                /\ entityIn' = entityIn
                /\ pc' = "quiet"
                /\ log' = l1
                /\ UNCHANGED <<http, out>>
         [] isAllowed = "true" /\ validator = "some" /\ ~IsMultipart(cType)
                /\ TopCTypeKey(cType) \notin Marshallers ->
                /\ call' = c1
                /\ entityIn' = entityIn
                /\ Deliver(ErrorResponse(415, "X2-415",
                               "Unsupported request entity content type."),
                           req, TRUE, handler, l1, fullAt)
         [] isAllowed = "true" /\ validator = "some" /\ ~IsMultipart(cType)
                /\ TopCTypeKey(cType) \in Marshallers
                /\ cLength > cfg.maxRequestSize ->
                /\ call' = c1
                /\ entityIn' = entityIn
                /\ Deliver(SetHeader(ErrorResponse(413, "X2-413",
                               "The request entity is too large."),
                               "connection", <<"close">>),
                           req, TRUE, handler, l1, fullAt)
         [] OTHER ->
                \* the 'data', 'end' and 'error' listeners are registered
                /\ call' = c1
                /\ entityIn' = [contentLength |-> cLength,
                                bytesRead |-> 0, dataBufs |-> 0]
                /\ pc' = "body"
                /\ log' = l1
                /\ UNCHANGED <<http, out>>

\* The authentication promise is rejected: _sendInternalServerErrorResponse
AuthRejects(fullAt) ==
    /\ pc = "auth"
    /\ Deliver(X2_500, req, TRUE, handler,
               [log EXCEPT !.errors = @ \cup {"authenticate"}], fullAt)
    /\ UNCHANGED <<cfg, appShutdown, req, handler, call, entityIn, cacheVars>>

\* The request's 'data' listener: the size test has an empty statement, the
\* chunk is kept whatever its size.
OnData(length) ==
    /\ pc = "body"
    /\ entityIn.dataBufs < MaxChunks
    /\ entityIn.contentLength # -1 =>
            entityIn.bytesRead + length <= entityIn.contentLength
    /\ entityIn' = [entityIn EXCEPT !.bytesRead = @ + length,
                                    !.dataBufs = @ + 1]
    /\ UNCHANGED <<cfg, appShutdown, req, handler, call, pc, http, out, log,
                   cacheVars>>

\* The request's 'end' listener: marshaller.deserialize(...) and _process2 in
\* a try block whose catch block is empty.  JsonMarshaller has no
\* deserialize method (a TypeError); a marshaller the application registered
\* may parse the data or throw.
OnEnd(deserialized, hcThrew, fullAt) ==
    /\ pc = "body"
    /\ entityIn.contentLength # -1 =>
            entityIn.bytesRead = entityIn.contentLength
    /\ UNCHANGED <<cfg, appShutdown, req, handler, entityIn, cacheVars>>
    /\ IF deserialized
       THEN Process2("entity", call, log, hcThrew, fullAt)
       ELSE /\ pc' = "quiet"
            /\ log' = [log EXCEPT !.errors = @ \cup {"deserialize"},
                                  !.swallowed = @ \cup {"deserialize"}]
            /\ UNCHANGED <<call, http, out>>

\* The request's 'error' listener: the error is written to the console
OnError ==
    /\ pc = "body"
    /\ pc' = "quiet"
    /\ log' = [log EXCEPT !.errors = @ \cup {"request"},
                          !.swallowed = @ \cup {"request"}]
    /\ UNCHANGED <<cfg, appShutdown, req, handler, call, entityIn, http, out,
                   cacheVars>>

\* What a handler's promise resolves with: null, an object, or an
\* EndpointCallResponse
HandlerResults ==
    { [kind |-> "null", response |-> NewResponse(204)],
      [kind |-> "object",
       response |-> ResponseEntity(NewResponse(200), ObjectData("x"), "", "")],
      [kind |-> "response", response |-> NewResponse(204)],
      [kind |-> "response",
       response |-> ResponseEntity(
                        SetHeader(NewResponse(201), "location", <<"/a/1">>),
                        ObjectData("x"), "", "")],
      [kind |-> "response",
       response |-> ResponseEntity(
                        SetHeader(NewResponse(200), "cache-control",
                                  <<"max-age=60">>),
                        BufferData(<<"a", "b">>), "text/plain", "f.txt")],
      [kind |-> "response",
       response |-> ResponseEntity(NewResponse(200), ObjectData("x"),
                                   "text/plain", "")],
      [kind |-> "response",
       response |-> ResponseEntity(
                        ResponseEntity(NewResponse(200), ObjectData("x"),
                                       "", ""),
                        BufferData(<<"a">>), "text/plain", "f.txt")],
      [kind |-> "response",
       response |-> ResponseEntity(NewResponse(200), StreamData,
                                   "text/plain", "")] }

\* _process3(result): the handler's promise is fulfilled
HandlerResolves(result, fullAt) ==
    /\ pc = "handler"
    /\ call' = [call EXCEPT !.responseActor = call.ctx[1].actor]
    /\ Deliver(result.response, req, TRUE, handler,
               [log EXCEPT !.result = result.kind,
                           !.entities = Len(result.response.entities)],
               fullAt)
    /\ UNCHANGED <<cfg, appShutdown, req, handler, entityIn, cacheVars>>

\* The handler's promise is rejected: _sendInternalServerErrorResponse
HandlerRejects(fullAt) ==
    /\ pc = "handler"
    /\ Deliver(X2_500, req, TRUE, handler,
               [log EXCEPT !.errors = @ \cup {"handler"}], fullAt)
    /\ UNCHANGED <<cfg, appShutdown, req, handler, call, entityIn, cacheVars>>

\* The HTTP response's 'drain' event: writeHttpResponse resumes
Drain(fullAt) ==
    \E t \in {WriteHttpResponse(http, out, fullAt)} :
    /\ pc = "drain"
    /\ http' = t.http
    /\ out' = t.out
    /\ pc' = t.pc
    /\ UNCHANGED <<cfg, appShutdown, req, handler, call, entityIn, log,
                   cacheVars>>

(***************************************************************************)
(* Application: registration and initialization                            *)
(***************************************************************************)

\* The most endpoints registered with an application
MaxEndpoints == 2

\* A service serviceProvider: the names in its dependencies property, and whether
\* its createService throws
ServiceProvider(deps, throws) == [dependencies |-> deps, throws |-> throws]

\* An entry of the Map this._serviceProviders, which iterates in the order
\* in which the names were first set
ProviderEntry(name, sp) == [name |-> name, provider |-> sp]

\* The handler constructors the constructor registers
BuiltinHeaderValueHandlers ==
    ("vary" :> "HeadersListHeaderValueHandler")
    @@ ("access-control-allow-headers" :> "HeadersListHeaderValueHandler")
    @@ ("access-control-expose-headers" :> "HeadersListHeaderValueHandler")
    @@ ("allow" :> "MethodsListHeaderValueHandler")
    @@ ("access-control-allow-methods" :> "MethodsListHeaderValueHandler")
    @@ ("DEFAULT" :> "DefaultHeaderValueHandler")

\* The service providers the constructor registers
BuiltinServiceProviders ==
    << ProviderEntry("authenticator",
           ServiceProvider(<<"actorRegistry", "actorRegistryCache">>, FALSE)),
       ProviderEntry("actorRegistry", ServiceProvider(<<>>, FALSE)),
       ProviderEntry("actorRegistryCache",
           ServiceProvider(<<"actorRegistry">>, FALSE)),
       ProviderEntry("marshaller:application/json",
           ServiceProvider(<<>>, FALSE)) >>

\* new Application(configFn, logger): a property that is undefined or was
\* deleted is <<>>, a property with the value v is <<v>>; registered is the
\* Map of the providers as init() found it, created lists the services
\* createService has returned, in the order of the calls, and inits counts
\* the calls of init() that returned
AppConstructed ==
    [ initialized |-> FALSE,
      shutdown |-> FALSE,
      endpoints |-> << <<>> >>,
      serviceProviders |-> << BuiltinServiceProviders >>,
      headerValueHandlers |-> BuiltinHeaderValueHandlers,
      services |-> <<>>,
      endpointMapper |-> <<>>,
      registered |-> <<>>,
      created |-> <<>>,
      inits |-> 0 ]

\* The outcome of the latest call of a method of the application
Outcome(op, threw) == [op |-> op, threw |-> threw]

\* No method was called yet
NoOperation == Outcome("", "")

\* if (this._initialized) throw ..., with the test left out
RegistrationClosedNever(a) == FALSE

\* if (this._initialized) throw new Error('Cannot add ... after application
\* initialization.')
RegistrationClosed(a) == a.initialized

\* new RegExp of the endpoint's pattern throws a SyntaxError
InvalidPattern(uriPattern) == uriPattern = "("

\* endpoint(uriPattern, def)
AppEndpoint(a, uriPattern) ==
    IF RegistrationClosed(a) THEN [app |-> a, threw |-> "Error"]
    ELSE IF InvalidPattern(uriPattern) THEN [app |-> a, threw |-> "SyntaxError"]
    ELSE IF a.endpoints = <<>> THEN [app |-> a, threw |-> "TypeError"]
    ELSE [app |-> [a EXCEPT !.endpoints = << Append(@[1], uriPattern) >>],
          threw |-> ""]

\* resource(def)
AppResource(a) ==
    IF RegistrationClosed(a) THEN [app |-> a, threw |-> "Error"]
    ELSE [app |-> a, threw |-> ""]

\* The index of the name in the Map's entries, 0 when it is not a key
EntryIndex(entries, name) ==
    IF \E i \in 1..Len(entries) : entries[i].name = name
    THEN CHOOSE i \in 1..Len(entries) : entries[i].name = name
    ELSE 0

\* Map.set(name, serviceProvider)
MapSet(entries, name, serviceProvider) ==
    IF EntryIndex(entries, name) = 0
    THEN Append(entries, ProviderEntry(name, serviceProvider))
    ELSE [entries EXCEPT ![EntryIndex(entries, name)].provider =
                             serviceProvider]

\* service(name, serviceProvider)
AppService(a, name, serviceProvider) ==
    IF RegistrationClosed(a) THEN [app |-> a, threw |-> "Error"]
    ELSE IF a.serviceProviders = <<>> THEN [app |-> a, threw |-> "TypeError"]
    ELSE [app |-> [a EXCEPT !.serviceProviders =
                                  << MapSet(@[1], name, serviceProvider) >>],
          threw |-> ""]

\* headerValueHandler(name, handlerConstructor) with a constructor: the
\* registering form
AppHeaderValueHandler(a, name, handlerConstructor) ==
    IF RegistrationClosed(a) THEN [app |-> a, threw |-> "Error"]
    ELSE [app |-> [a EXCEPT !.headerValueHandlers =
                                  (name :> handlerConstructor) @@ @],
          threw |-> ""]

\* headerValueHandler(name) without a constructor: the constructor of the
\* handler a new handler for the header is made with
GetHeaderValueHandler(a, name) ==
    IF name \in DOMAIN a.headerValueHandlers
    THEN a.headerValueHandlers[name]
    ELSE a.headerValueHandlers["DEFAULT"]

\* The sequence has the element
InSequence(seq, x) == \E i \in 1..Len(seq) : seq[i] = x

\* _addToServiceInitSequence without the services the service depends on
AddToServiceInitSequenceAlone(entries, serviceName, st) ==
    IF InSequence(st.serviceInitSequence, serviceName) THEN st
    ELSE [st EXCEPT !.serviceInitSequence = Append(@, serviceName)]

RECURSIVE AddToServiceInitSequence(_, _, _)
RECURSIVE AddDependencies(_, _, _, _)

\* _addToServiceInitSequence(serviceName, serviceProvider,
\* serviceInitSequence, serviceDepsChain): st holds the two sets (the
\* sequence in its insertion order) and the error thrown, "" for none
AddToServiceInitSequence(entries, serviceName, st) ==
    IF st.threw # "" THEN st
    ELSE IF InSequence(st.serviceInitSequence, serviceName) THEN st
    ELSE IF serviceName \in st.serviceDepsChain
    THEN [st EXCEPT !.threw = "Circular dependency"]
    ELSE LET deps == entries[EntryIndex(entries, serviceName)].provider.dependencies
             after == IF Len(deps) > 0
                      THEN LET d == AddDependencies(entries, serviceName, 1,
                                        [st EXCEPT !.serviceDepsChain =
                                                       @ \cup {serviceName}])
                           IN  IF d.threw # "" THEN d
                               ELSE [d EXCEPT !.serviceDepsChain =
                                                  @ \ {serviceName}]
                      ELSE st
         IN  IF after.threw # "" THEN after
             ELSE [after EXCEPT !.serviceInitSequence =
                                    Append(@, serviceName)]

\* deps.forEach(depServiceName => ...) from the i-th dependency on
AddDependencies(entries, serviceName, i, st) ==
    LET deps == entries[EntryIndex(entries, serviceName)].provider.dependencies
    IN  IF st.threw # "" \/ i > Len(deps) THEN st
        ELSE IF EntryIndex(entries, deps[i]) = 0
        THEN [st EXCEPT !.threw = "unknown service"]
        ELSE AddDependencies(entries, serviceName, i + 1,
                 AddToServiceInitSequence(entries, deps[i], st))

RECURSIVE BuildInitSequence(_, _, _)

\* this._serviceProviders.forEach(...) of init() from the i-th entry on
BuildInitSequence(entries, i, st) ==
    IF st.threw # "" \/ i > Len(entries) THEN st
    ELSE BuildInitSequence(entries, i + 1,
             AddToServiceInitSequence(entries, entries[i].name, st))

\* The initialization sequence of the registered providers
ServiceInitSequence(entries) ==
    BuildInitSequence(entries, 1,
        [serviceInitSequence |-> <<>>, serviceDepsChain |-> {}, threw |-> ""])

RECURSIVE InstantiateServices(_, _, _, _)

\* serviceInitSequence.forEach(serviceName => this._services.set(serviceName,
\* provider.createService(this._runtime))) from the i-th name on
InstantiateServices(entries, sequence, i, st) ==
    IF st.threw # "" \/ i > Len(sequence) THEN st
    ELSE IF entries[EntryIndex(entries, sequence[i])].provider.throws
    THEN [st EXCEPT !.threw = "createService"]
    ELSE InstantiateServices(entries, sequence, i + 1,
             [st EXCEPT !.services = Append(@, sequence[i])])

\* shutdown(): the flag tested is this._shutdiwn, which nothing sets
AppShutdown(a) ==
    IF ~a.initialized THEN [app |-> a, threw |-> ""]
    ELSE IF a.services = <<>>
    THEN [app |-> [a EXCEPT !.shutdown = TRUE], threw |-> "TypeError"]
    ELSE [app |-> [a EXCEPT !.shutdown = TRUE, !.services = <<>>],
          threw |-> ""]

\* The catch clause of init(): this.shutdown(); throw err
InitFailed(a, err) ==
    LET s == AppShutdown(a)
    IN  [app |-> s.app, threw |-> IF s.threw # "" THEN s.threw ELSE err]

\* init()
AppInit(a) ==
    IF a.initialized THEN [app |-> a, threw |-> "Error"]
    ELSE LET entries == a.serviceProviders[1]
             a1 == [a EXCEPT !.initialized = TRUE, !.registered = entries]
             seq == ServiceInitSequence(entries)
             inst == InstantiateServices(entries, seq.serviceInitSequence, 1,
                                         [services |-> <<>>, threw |-> ""])
             a2 == [a1 EXCEPT !.services = << inst.services >>,
                              !.created = @ \o inst.services]
         IN  IF seq.threw # "" THEN InitFailed(a1, seq.threw)
             ELSE IF inst.threw # "" THEN InitFailed(a2, inst.threw)
             ELSE [app |-> [a2 EXCEPT !.serviceProviders = <<>>,
                                      !.endpointMapper = a.endpoints,
                                      !.endpoints = <<>>,
                                      !.inits = @ + 1],
                   threw |-> ""]

\* respond(httpRequest, httpResponse) up to the processing of the call: 503
\* after the shutdown, init() when the application is not initialized
AppRespond(a) ==
    IF a.shutdown THEN [app |-> a, threw |-> ""]
    ELSE IF ~a.initialized THEN AppInit(a)
    ELSE [app |-> a, threw |-> ""]

\* The names applications register services under: a built-in one, which the
\* registration replaces, and two of the application's own
ServiceNames == {"actorRegistry", "db", "mail"}

\* The providers applications register: independent, depending on another
\* service of the application, on a built-in service that depends on
\* actorRegistry, on themselves or on each other, on a service that is
\* never registered, and one whose createService throws
ServiceProviders ==
    { ServiceProvider(<<>>, FALSE),
      ServiceProvider(<<"db">>, FALSE),
      ServiceProvider(<<"mail", "db">>, FALSE),
      ServiceProvider(<<"actorRegistryCache">>, FALSE),
      ServiceProvider(<<"ldap">>, FALSE),
      ServiceProvider(<<>>, TRUE) }

\* The patterns of the endpoints applications register
UriPatterns == {"/a", "("}

\* The headers applications register handlers for
HandlerNames == {"vary", "x-custom"}

\* One call of a method of the application
Call(op, r) ==
    /\ app' = r.app
    /\ lastCall' = Outcome(op, r.threw)
    /\ UNCHANGED <<cacheVars, callVars, pairVars, auth, headerVars>>

CallEndpoint ==
    \E uriPattern \in UriPatterns :
        /\ IF app.endpoints = <<>> THEN TRUE
           ELSE Len(app.endpoints[1]) < MaxEndpoints
        /\ Call("endpoint", AppEndpoint(app, uriPattern))

CallResource == Call("resource", AppResource(app))

CallService ==
    \E name \in ServiceNames, serviceProvider \in ServiceProviders :
        Call("service", AppService(app, name, serviceProvider))

CallHeaderValueHandler ==
    \E name \in HandlerNames :
        Call("headerValueHandler",
             AppHeaderValueHandler(app, name, "CustomHeaderValueHandler"))

CallInit == Call("init", AppInit(app))

CallRespond == Call("respond", AppRespond(app))

CallShutdown == Call("shutdown", AppShutdown(app))

(***************************************************************************)
(* The headers of one response                                             *)
(***************************************************************************)

\* The arguments of a call of header()
HeaderCall(name, value, keepExisting) ==
    [name |-> name, value |-> value, keepExisting |-> keepExisting]

\* header() was not called yet
NoHeaderCall == HeaderCall("", <<>>, FALSE)

\* The names header() is called with: two headers with the method list
\* handler's and the header list handler's value policy and one with the
\* default handler's, in several letter cases
HeaderNames == {"allow", "Allow", "ALLOW", "vary", "VARY", "x-custom", "X-Custom"}

\* The values header() is called with, as the elements
\* String(v).trim().split(/\s*,\s*/) yields: lists of methods, lists of
\* header names, plain values, and null
HeaderValues(nameLC) ==
    IF nameLC \in MethodsListHeaders
    THEN {NullValue, <<"get">>, <<"GET", "post">>, <<"POST", "get", "GET">>}
    ELSE IF nameLC \in HeadersListHeaders
    THEN {NullValue, <<"origin">>, <<"X-CUSTOM", "Origin">>,
          <<"x-custom", "origin", "X-Custom">>}
    ELSE {NullValue, <<"a">>, <<"b">>}

\* The elements the header's handler has been given after the call
GivenAfter(response, g, nameLC, value, keepExisting) ==
    LET before == IF nameLC \in DOMAIN g THEN g[nameLC] ELSE {}
        now1 == IF value = NullValue THEN {}
                ELSE IF nameLC \in DOMAIN response.headers /\ keepExisting
                THEN before
                ELSE before \cup {value[i] : i \in 1..Len(value)}
    IN  [n \in DOMAIN g \cup {nameLC} |-> IF n = nameLC THEN now1 ELSE g[n]]

\* One call of header(name, value, keepExisting)
CallHeader ==
    \E name \in HeaderNames, keepExisting \in BOOLEAN :
    \E value \in HeaderValues(ToLowerCase(name)) :
        /\ headersSet' = Header(headersSet, name, value, keepExisting)
        /\ headerCall' = HeaderCall(name, value, keepExisting)
        /\ given' = GivenAfter(headersSet, given, ToLowerCase(name), value,
                               keepExisting)
        /\ UNCHANGED <<cacheVars, callVars, pairVars, auth, appVars>>

\* The ActorRegistryCache on its own: the application serves no request
InitCache ==
    /\ provider \in Providers
    /\ CreateService(provider)
    /\ now = 0
    /\ upstream = <<>>
    /\ calls = <<>>
    /\ warned = FALSE
    /\ cfg = AppConstructor(<<>>, <<>>, FALSE, FALSE)
    /\ appShutdown = FALSE
    /\ req = NoRequest
    /\ handler = NoHandler
    /\ call = NewCall
    /\ pc = "idle"
    /\ entityIn = NoEntityIn
    /\ http = NoHttp
    /\ out = NoOut
    /\ log = NoLog
    /\ other = ThisCall
    /\ pending = <<>>
    /\ auth = NoAuth
    /\ app = AppConstructed
    /\ lastCall = NoOperation
    /\ headersSet = NewResponse(200)
    /\ headerCall = NoHeaderCall
    /\ given = <<>>

NextCache ==
    \/ /\ \E k \in Keys : Lookup(k)
       /\ UNCHANGED <<callVars, pairVars, auth, standaloneVars>>
    \/ \E id \in 1..MaxLookups : UpstreamResolves(id)
    \/ \E id \in 1..MaxLookups : UpstreamRejects(id)
    \/ Tick

SpecCache == InitCache /\ [][NextCache]_vars

\* The applications explored: their endpoints, URI prefix and CORS patterns
Apps ==
    { AppConstructor(Endpoints(<<PatAId, PatBOpt, PatA>>), <<>>, FALSE, FALSE),
      AppConstructor(Endpoints(<<PatAOrB, PatAId>>), <<>>, TRUE, FALSE),
      AppConstructor(Endpoints(<<PatRootOpt, PatA, PatAOpt>>), Prefix, TRUE, TRUE) }

\* The most buffers one response body is written from
MaxBufs == 1

InitCall ==
    /\ cfg \in Apps
    /\ appShutdown = FALSE
    /\ req = NoRequest
    /\ handler = NoHandler
    /\ call = NewCall
    /\ pc = "idle"
    /\ entityIn = NoEntityIn
    /\ http = NoHttp
    /\ out = NoOut
    /\ log = NoLog
    /\ provider = Provider(MaxCached, CacheTTL, <<>>, <<>>)
    /\ CreateService(provider)
    /\ now = 0
    /\ upstream = <<>>
    /\ calls = <<>>
    /\ warned = FALSE
    /\ other = ThisCall
    /\ pending = <<>>
    /\ auth = NoAuth
    /\ app = AppConstructed
    /\ lastCall = NoOperation
    /\ headersSet = NewResponse(200)
    /\ headerCall = NoHeaderCall
    /\ given = <<>>

\* The guards on pc are repeated before the quantifiers so that the inputs
\* of an event are enumerated only in the states where it can happen.
NextCall ==
    \/ /\ pc = "idle"
       /\ \E method \in Methods, u \in Urls, origin \in Origins,
             pre \in Preflights, h \in Handlers,
             gam \in AllowedMethodsResults, fullAt \in 0..MaxBufs :
               /\ method # "OPTIONS" => pre.requestMethod = ""
               /\ Respond(method, u, origin, pre, h, gam, fullAt)
       /\ UNCHANGED <<pairVars, auth, standaloneVars>>
    \/ /\ pc = "auth"
       /\ \E authResult \in AuthResults,
             isAllowed \in {"true", "false", "throw"},
             validator \in {"absent", "none", "some", "throw"},
             cType \in ContentTypes, cLength \in ContentLengths,
             hcThrew \in BOOLEAN, fullAt \in 0..MaxBufs :
               \* the request's entity headers are read only with a validator
               /\ validator # "some" => cType = "" /\ cLength = -1
               /\ AuthResolves(authResult, isAllowed, validator, cType,
                               cLength, hcThrew, fullAt)
       /\ UNCHANGED <<pairVars, auth, standaloneVars>>
    \/ /\ \E fullAt \in 0..MaxBufs : AuthRejects(fullAt)
       /\ UNCHANGED <<pairVars, auth, standaloneVars>>
    \/ /\ \E length \in {1, MaxRequestSize + 1} : OnData(length)
       /\ UNCHANGED <<pairVars, auth, standaloneVars>>
    \/ /\ \E deserialized \in BOOLEAN, hcThrew \in BOOLEAN,
             fullAt \in 0..MaxBufs : OnEnd(deserialized, hcThrew, fullAt)
       /\ UNCHANGED <<pairVars, auth, standaloneVars>>
    \/ /\ OnError
       /\ UNCHANGED <<pairVars, auth, standaloneVars>>
    \/ /\ \E result \in HandlerResults, fullAt \in 0..MaxBufs :
            HandlerResolves(result, fullAt)
       /\ UNCHANGED <<pairVars, auth, standaloneVars>>
    \/ /\ \E fullAt \in 0..MaxBufs : HandlerRejects(fullAt)
       /\ UNCHANGED <<pairVars, auth, standaloneVars>>
    \/ /\ \E fullAt \in 0..MaxBufs : Drain(fullAt)
       /\ UNCHANGED <<pairVars, auth, standaloneVars>>

SpecCall == InitCall /\ [][NextCall]_vars

\* Two requests handed to respond(), the same but for the Origin header.  The
\* authenticator, the handler, the body stream and the socket behave for one
\* EndpointCall as they do for the other: an event one call meets (with its
\* inputs) is met by the other call next.

\* One call has met the event act with the inputs args
Lead(act, args) ==
    /\ pending' = <<[act |-> act, args |-> args, swapped |-> FALSE]>>
    /\ other' = other
    /\ auth' = auth
    /\ UNCHANGED standaloneVars

\* The other call's turn
Swap ==
    /\ pending # <<>>
    /\ ~pending[1].swapped
    /\ pending' = <<[pending[1] EXCEPT !.swapped = TRUE]>>
    /\ other' = ThisCall
    /\ auth' = auth
    /\ UNCHANGED standaloneVars
    /\ req' = other.req
    /\ handler' = other.handler
    /\ call' = other.call
    /\ pc' = other.pc
    /\ entityIn' = other.entityIn
    /\ http' = other.http
    /\ out' = other.out
    /\ log' = other.log
    /\ UNCHANGED <<cfg, appShutdown, cacheVars>>

\* The event act with the inputs a
Event(act, a) ==
    \/ /\ act = "Respond"
       /\ Respond(a[1], a[2], a[3], a[4], a[5], a[6], a[7])
    \/ /\ act = "AuthResolves"
       /\ AuthResolves(a[1], a[2], a[3], a[4], a[5], a[6], a[7])
    \/ /\ act = "AuthRejects"
       /\ AuthRejects(a[1])
    \/ /\ act = "OnData"
       /\ OnData(a[1])
    \/ /\ act = "OnEnd"
       /\ OnEnd(a[1], a[2], a[3])
    \/ /\ act = "OnError"
       /\ OnError
    \/ /\ act = "HandlerResolves"
       /\ HandlerResolves(a[1], a[2])
    \/ /\ act = "HandlerRejects"
       /\ HandlerRejects(a[1])
    \/ /\ act = "Drain"
       /\ Drain(a[1])

\* The other call meets the pending event
Follow ==
    /\ pending # <<>>
    /\ pending[1].swapped
    /\ \E e \in {pending[1]} : Event(e.act, e.args)
    /\ pending' = <<>>
    /\ other' = other
    /\ auth' = auth
    /\ UNCHANGED standaloneVars

InitPair == InitCall

\* The requests of the two calls: URLs on and off an endpoint, with and
\* without the application's prefix, and the two Origin headers
PairUrls ==
    { [pathname |-> <<"/", "a">>, search |-> <<"?", "q">>],
      [pathname |-> <<"/", "c">>, search |-> <<>>],
      [pathname |-> <<"/", "p">>, search |-> <<>>],
      [pathname |-> <<"/", "p", "/", "a">>, search |-> <<>>] }

OriginPairs ==
    { <<"", "https://evil.example">>, <<"", "https://both.example">>,
      <<"https://evil.example", "https://both.example">> }

NextPair ==
    \/ /\ pending = <<>> /\ pc = "idle"
       /\ \E method \in Methods, u \in PairUrls, origins \in OriginPairs,
             pre \in Preflights, h \in Handlers,
             gam \in AllowedMethodsResults, fullAt \in 0..MaxBufs :
               /\ method # "OPTIONS" => pre.requestMethod = ""
               /\ Respond(method, u, origins[1], pre, h, gam, fullAt)
               /\ Lead("Respond",
                       <<method, u, origins[2], pre, h, gam, fullAt>>)
    \/ /\ pending = <<>> /\ pc = "auth"
       /\ \E authResult \in AuthResults,
             isAllowed \in {"true", "false", "throw"},
             validator \in {"absent", "none", "some", "throw"},
             cType \in ContentTypes, cLength \in ContentLengths,
             hcThrew \in BOOLEAN, fullAt \in 0..MaxBufs :
               /\ validator # "some" => cType = "" /\ cLength = -1
               /\ AuthResolves(authResult, isAllowed, validator, cType,
                               cLength, hcThrew, fullAt)
               /\ Lead("AuthResolves", <<authResult, isAllowed, validator,
                                         cType, cLength, hcThrew, fullAt>>)
    \/ /\ pending = <<>>
       /\ \E fullAt \in 0..MaxBufs :
               AuthRejects(fullAt) /\ Lead("AuthRejects", <<fullAt>>)
    \/ /\ pending = <<>>
       /\ \E length \in {1, MaxRequestSize + 1} :
               OnData(length) /\ Lead("OnData", <<length>>)
    \/ /\ pending = <<>>
       /\ \E deserialized \in BOOLEAN, hcThrew \in BOOLEAN,
             fullAt \in 0..MaxBufs :
               /\ OnEnd(deserialized, hcThrew, fullAt)
               /\ Lead("OnEnd", <<deserialized, hcThrew, fullAt>>)
    \/ /\ pending = <<>>
       /\ OnError /\ Lead("OnError", <<>>)
    \/ /\ pending = <<>>
       /\ \E result \in HandlerResults, fullAt \in 0..MaxBufs :
               /\ HandlerResolves(result, fullAt)
               /\ Lead("HandlerResolves", <<result, fullAt>>)
    \/ /\ pending = <<>>
       /\ \E fullAt \in 0..MaxBufs :
               HandlerRejects(fullAt) /\ Lead("HandlerRejects", <<fullAt>>)
    \/ /\ pending = <<>>
       /\ \E fullAt \in 0..MaxBufs :
               Drain(fullAt) /\ Lead("Drain", <<fullAt>>)
    \/ Swap
    \/ Follow

SpecPair == InitPair /\ [][NextPair]_vars

(***************************************************************************)
(* BasicAuthenticator (src/unnamed/part_005) in front of the call          *)
(***************************************************************************)

\* The authentication result without an actor
Unauthenticated == [actor |-> "null", challenge |-> Challenge]

\* Mutant: the fulfilment callback without the call of validCredentials
LookupFulfilledUnchecked(actor, validCredentials) ==
    IF actor = "null" THEN Unauthenticated
    ELSE [actor |-> actor, challenge |-> ""]

\* authenticate(): the lookup promise's fulfilment callback, for the actor the
\* registry found ("null": none) and what validCredentials returns for it
LookupFulfilled(actor, validCredentials) ==
    IF actor = "null" THEN Unauthenticated
    ELSE IF ~validCredentials THEN Unauthenticated
    ELSE [actor |-> actor, challenge |-> ""]

\* The rejection callback rejecting whatever the error's code
LookupRejectedAnyCode(code) ==
    [rejects |-> TRUE, authResult |-> Unauthenticated]

\* authenticate(): the lookup promise's rejection callback, for err.code
LookupRejected(code) ==
    [rejects |-> code = "server_error", authResult |-> Unauthenticated]

\* The Authorization request header: absent, not 'Basic <base64 of id:pw>',
\* or well-formed
AuthorizationHeaders == {"none", "malformed", "basic"}

\* The codes an actor registry rejects a lookup with
ErrorCodes == {"server_error", "invalid_request", "access_denied"}

\* respond() for a request with the Authorization header
RespondWithAuthorization(header, method, u, origin, pre, h, gam, fullAt) ==
    /\ Respond(method, u, origin, pre, h, gam, fullAt)
    /\ auth' = [header |-> header, lookup |-> ""]
    /\ UNCHANGED <<pairVars, standaloneVars>>

\* authenticate() resolves at once: no credentials in the request
NoCredentials(isAllowed, validator, cType, cLength, hcThrew, fullAt) ==
    /\ auth.header \in {"none", "malformed"}
    /\ AuthResolves(Unauthenticated, isAllowed, validator, cType, cLength,
                    hcThrew, fullAt)
    /\ UNCHANGED <<pairVars, auth, standaloneVars>>

\* actorRegistryCache.lookup(authResult) is fulfilled with an actor or null
LookupFulfills(actor, valid, isAllowed, validator, cType, cLength, hcThrew, fullAt) ==
    /\ auth.header = "basic"
    /\ AuthResolves(LookupFulfilled(actor, valid), isAllowed, validator,
                    cType, cLength, hcThrew, fullAt)
    /\ auth' = [auth EXCEPT !.lookup = IF actor = "null" THEN "null"
                                       ELSE IF valid THEN "actor"
                                       ELSE "invalid"]
    /\ UNCHANGED <<pairVars, standaloneVars>>

\* actorRegistryCache.lookup(authResult) is rejected with an error of the code
LookupRejects(code, isAllowed, validator, cType, cLength, hcThrew, fullAt) ==
    /\ auth.header = "basic"
    /\ \E r \in {LookupRejected(code)} :
            IF r.rejects
            THEN AuthRejects(fullAt)
            ELSE AuthResolves(r.authResult, isAllowed, validator, cType,
                              cLength, hcThrew, fullAt)
    /\ auth' = [auth EXCEPT !.lookup = code]
    /\ UNCHANGED <<pairVars, standaloneVars>>

\* actorRegistryCache.lookup(authResult) throws inside the promise's
\* executor: the promise of authenticate() is rejected
LookupThrows(fullAt) ==
    /\ auth.header = "basic"
    /\ AuthRejects(fullAt)
    /\ auth' = [auth EXCEPT !.lookup = "throw"]
    /\ UNCHANGED <<pairVars, standaloneVars>>

InitAuth == InitCall

NextAuth ==
    \/ /\ pc = "idle"
       /\ \E header \in AuthorizationHeaders, method \in {"GET", "POST"},
             u \in PairUrls, h \in Handlers, gam \in AllowedMethodsResults,
             fullAt \in 0..MaxBufs :
               RespondWithAuthorization(header, method, u, "",
                                        CHOOSE pre \in Preflights :
                                            pre.requestMethod = "",
                                        h, gam, fullAt)
    \/ /\ pc = "auth"
       /\ \E isAllowed \in {"true", "false", "throw"},
             validator \in {"absent", "none", "some", "throw"},
             cType \in ContentTypes, cLength \in ContentLengths,
             hcThrew \in BOOLEAN, fullAt \in 0..MaxBufs :
               /\ validator # "some" => cType = "" /\ cLength = -1
               /\ NoCredentials(isAllowed, validator, cType, cLength, hcThrew,
                                fullAt)
    \/ /\ pc = "auth"
       /\ \E actor \in {"null", "alice"}, valid \in BOOLEAN,
             isAllowed \in {"true", "false", "throw"},
             validator \in {"absent", "none", "some", "throw"},
             cType \in ContentTypes, cLength \in ContentLengths,
             hcThrew \in BOOLEAN, fullAt \in 0..MaxBufs :
               /\ validator # "some" => cType = "" /\ cLength = -1
               /\ LookupFulfills(actor, valid, isAllowed, validator, cType,
                                 cLength, hcThrew, fullAt)
    \/ /\ pc = "auth"
       /\ \E code \in ErrorCodes,
             isAllowed \in {"true", "false", "throw"},
             validator \in {"absent", "none", "some", "throw"},
             cType \in ContentTypes, cLength \in ContentLengths,
             hcThrew \in BOOLEAN, fullAt \in 0..MaxBufs :
               /\ validator # "some" => cType = "" /\ cLength = -1
               /\ LookupRejects(code, isAllowed, validator, cType, cLength,
                                hcThrew, fullAt)
    \/ /\ pc = "auth"
       /\ \E fullAt \in 0..MaxBufs : LookupThrows(fullAt)
    \/ /\ \E length \in {1, MaxRequestSize + 1} : OnData(length)
       /\ UNCHANGED <<pairVars, auth, standaloneVars>>
    \/ /\ \E deserialized \in BOOLEAN, hcThrew \in BOOLEAN,
             fullAt \in 0..MaxBufs : OnEnd(deserialized, hcThrew, fullAt)
       /\ UNCHANGED <<pairVars, auth, standaloneVars>>
    \/ /\ OnError
       /\ UNCHANGED <<pairVars, auth, standaloneVars>>
    \/ /\ \E result \in HandlerResults, fullAt \in 0..MaxBufs :
            HandlerResolves(result, fullAt)
       /\ UNCHANGED <<pairVars, auth, standaloneVars>>
    \/ /\ \E fullAt \in 0..MaxBufs : HandlerRejects(fullAt)
       /\ UNCHANGED <<pairVars, auth, standaloneVars>>
    \/ /\ \E fullAt \in 0..MaxBufs : Drain(fullAt)
       /\ UNCHANGED <<pairVars, auth, standaloneVars>>

SpecAuth == InitAuth /\ [][NextAuth]_vars

\* The application on its own: registrations, init(), respond() and
\* shutdown() in any order
InitApp ==
    /\ InitCall
    /\ cfg = AppConstructor(Endpoints(<<PatAId, PatBOpt, PatA>>), <<>>,
                            FALSE, FALSE)

NextApp ==
    \/ CallEndpoint
    \/ CallResource
    \/ CallService
    \/ CallHeaderValueHandler
    \/ CallInit
    \/ CallRespond
    \/ CallShutdown

SpecApp == InitApp /\ [][NextApp]_vars

\* The headers of one response on their own: header() called any number of
\* times
InitHeaders == InitApp

NextHeaders == CallHeader

SpecHeaders == InitHeaders /\ [][NextHeaders]_vars

(***************************************************************************)
(* The write loop of a buffered response body on its own                   *)
(* (Application._sendResponse of src/unnamed/part_011, lines 835-903),     *)
(* from the state in which the head has been written.                      *)
(***************************************************************************)

\* The most entities of the response whose body is written
MaxEntities == 2

\* The data buffers of the response's entities
EntityBuffers == {<<"a">>, <<"b">>, <<"c">>}

BoundaryMid == <<"--boundary", "\r\n">>
BoundaryEnd == <<"--boundary", "--">>
Crlf == <<"\r\n">>
PartHead == <<"Content-Type: application/json", "\r\n", "\r\n">>

RECURSIVE PartsFrom(_, _)
\* entities.forEach((entity, ind) => ...): the four buffers of each part
PartsFrom(entities, ind) ==
    IF ind > Len(entities) THEN <<>>
    ELSE <<BoundaryMid, PartHead, entities[ind], Crlf>>
         \o PartsFrom(entities, ind + 1)

\* const bufs = []; ...: the body buffers of the entities' data buffers
BodyBufs(entities) ==
    IF Len(entities) = 1 THEN <<entities[1]>>
    ELSE PartsFrom(entities, 1) \o <<BoundaryEnd>>

\* The responses whose body is written: one entity, or two and more
EntityLists ==
    UNION {[1..n -> EntityBuffers] : n \in 1..MaxEntities}

\* httpResponse.writeHead(statusCode, response.headers) has been called and
\* writeHttpResponse() is about to be
InitWrite ==
    /\ cfg = AppConstructor(Endpoints(<<PatAId, PatBOpt, PatA>>), <<>>,
                            FALSE, FALSE)
    /\ appShutdown = FALSE
    /\ req = NoRequest
    /\ handler = NoHandler
    /\ call = NewCall
    /\ pc = "write"
    /\ entityIn = NoEntityIn
    /\ http = [NoHttp EXCEPT !.heads = 1, !.statusCode = 200]
    /\ \E entities \in EntityLists :
          out = [bufs |-> BodyBufs(entities), curBufInd |-> 0]
    /\ log = NoLog
    /\ provider = Provider(MaxCached, CacheTTL, <<>>, <<>>)
    /\ CreateService(provider)
    /\ now = 0
    /\ upstream = <<>>
    /\ calls = <<>>
    /\ warned = FALSE
    /\ other = ThisCall
    /\ pending = <<>>
    /\ auth = NoAuth
    /\ app = AppConstructed
    /\ lastCall = NoOperation
    /\ headersSet = NewResponse(200)
    /\ headerCall = NoHeaderCall
    /\ given = <<>>

\* writeHttpResponse(), called by _sendResponse after writeHead
BeginWrite(fullAt) ==
    \E t \in {WriteHttpResponse(http, out, fullAt)} :
    /\ pc = "write"
    /\ http' = t.http
    /\ out' = t.out
    /\ pc' = t.pc
    /\ UNCHANGED <<cfg, appShutdown, req, handler, call, entityIn, log,
                   cacheVars>>

NextWrite ==
    \/ /\ \E fullAt \in 0..Len(out.bufs) : BeginWrite(fullAt)
       /\ UNCHANGED <<pairVars, auth, standaloneVars>>
    \/ /\ \E fullAt \in 0..Len(out.bufs) : Drain(fullAt)
       /\ UNCHANGED <<pairVars, auth, standaloneVars>>

\* writeHttpResponse() is called synchronously, and every 'drain' event the
\* loop waits for is delivered
SpecWrite == InitWrite /\ [][NextWrite]_vars /\ WF_vars(NextWrite)

(***************************************************************************)
(* BasicAuthenticator.authenticate (src/unnamed/part_005) in front of the  *)
(* ActorRegistryCache: a sequence of requests with well-formed credentials *)
(***************************************************************************)

\* The most requests authenticated
MaxRequests == 2

\* The actor the registry holds under actor id k
ActorOf(k) == ToString(k)

\* authenticate() for a request with the credentials of actor id k, which
\* validCredentials finds valid or not: the promise's executor calls
\* this._actorRegistryCache.lookup(authResult); an exception it throws rejects
\* the promise of authenticate()
Authenticate(k, valid) ==
    /\ Len(auth) < MaxRequests
    /\ Lookup(k)
    /\ auth' = Append(auth,
          [valid |-> valid,
           hit |-> ~disabled /\ Has(k) /\ cacheMap[k].resolved
                      /\ ~Stale(cacheMap[k], now),
           state |-> IF calls'[Len(calls')].ret = 0 THEN "rejected"
                     ELSE "pending",
           authResult |-> NoAuthResult])
    /\ UNCHANGED <<callVars, pairVars, standaloneVars>>

\* The promise the lookup of request number i returned has settled: the
\* callback authenticate() registered on it runs (code is err.code of a
\* rejection)
AuthCallback(i, code) ==
    /\ i \in 1..Len(auth)
    /\ auth[i].state = "pending"
    /\ upstream[calls[i].ret].state # "pending"
    /\ \E r \in {IF upstream[calls[i].ret].state = "fulfilled"
                  THEN [rejects |-> FALSE,
                        authResult |-> LookupFulfilled(ActorOf(calls[i].key),
                                                       auth[i].valid)]
                  ELSE LookupRejected(code)} :
          auth' = [auth EXCEPT
                       ![i].state = IF r.rejects THEN "rejected" ELSE "resolved",
                       ![i].authResult = r.authResult]
    /\ UNCHANGED <<cacheVars, callVars, pairVars, standaloneVars>>

InitBasic ==
    /\ provider \in {p \in Providers : /\ p.X2_ACTOR_CACHE_MAX = <<>>
                                       /\ p.X2_ACTOR_CACHE_TTL = <<>>
                                       /\ p.maxCached > 0
                                       /\ p.cacheTTL > 0}
    /\ CreateService(provider)
    /\ now = 0
    /\ upstream = <<>>
    /\ calls = <<>>
    /\ warned = FALSE
    /\ cfg = AppConstructor(<<>>, <<>>, FALSE, FALSE)
    /\ appShutdown = FALSE
    /\ req = NoRequest
    /\ handler = NoHandler
    /\ call = NewCall
    /\ pc = "idle"
    /\ entityIn = NoEntityIn
    /\ http = NoHttp
    /\ out = NoOut
    /\ log = NoLog
    /\ other = ThisCall
    /\ pending = <<>>
    /\ auth = <<>>
    /\ app = AppConstructed
    /\ lastCall = NoOperation
    /\ headersSet = NewResponse(200)
    /\ headerCall = NoHeaderCall
    /\ given = <<>>

\* The requests whose callback is due: the promise their lookup returned has
\* settled
CallbacksDue ==
    {i \in 1..Len(auth) :
        auth[i].state = "pending" /\ upstream[calls[i].ret].state # "pending"}

\* Promise callbacks are jobs of the microtask queue: those that are due run,
\* in the order in which they were registered, before the next request, the
\* next result of the registry or the next timer is handled.
NextBasic ==
    \/ /\ CallbacksDue = {}
       /\ \E k \in Keys, valid \in BOOLEAN : Authenticate(k, valid)
    \/ /\ CallbacksDue = {}
       /\ \E id \in 1..MaxLookups : UpstreamResolves(id)
    \/ /\ CallbacksDue = {}
       /\ \E id \in 1..MaxLookups : UpstreamRejects(id)
    \/ /\ CallbacksDue = {}
       /\ Tick
    \/ \E i \in CallbacksDue, code \in ErrorCodes :
          /\ \A j \in CallbacksDue : i <= j
          /\ AuthCallback(i, code)

SpecBasic == InitBasic /\ [][NextBasic]_vars




(***************************************************************************)
(* Claims about the call pipeline                                          *)
(***************************************************************************)

\* The call holds no listener and awaits no promise any more: no event can
\* reach it, what the HTTP response has not received it never will.
Quiet == pc = "quiet"

\* The HTTP response is complete: one head written, end() called
Answered == http.heads = 1 /\ http.ends = 1

\* C1: every request handed to respond() receives a complete response (head
\* written and response ended) once the authenticator, the request body
\* stream, the handler and the socket have settled, requests with a multipart
\* body, a body that fails to deserialize or a failing body stream and
\* responses with a stream entity included: a call that waits for nothing
\* any more has answered.
C1_EveryRequestAnswered == Quiet => Answered

\* C2: the response head is written exactly once for every request, never
\* twice and never not at all, on every code path.
C2_HeadWrittenExactlyOnce ==
    /\ http.heads <= 1
    /\ Quiet => http.heads = 1

\* C3: an error thrown or a promise rejected in any phase ends in a 500
\* response with the generic message; no error is swallowed.
C3_EveryErrorBecomes500 ==
    (Quiet /\ log.errors # {}) =>
        /\ log.swallowed = {}
        /\ Answered
        /\ http.statusCode = 500
        /\ req.method # "HEAD" =>
                http.body = <<Serialize(<<"Internal server error.">>)>>

\* C8: when isAllowed denies the call the response is 401 with
\* WWW-Authenticate equal to the authenticator's challenge exactly when the
\* actor is null, 403 exactly when the actor is not null, and handleCall is
\* not invoked.
C8_DeniedIs401Or403 ==
    log.denied =>
        /\ http.heads = 1
        /\ log.handleCall = 0
        /\ http.statusCode = 401 <=> call.authResult.actor = "null"
        /\ http.statusCode = 403 <=> call.authResult.actor # "null"
        /\ http.statusCode = 401 =>
                /\ "www-authenticate" \in DOMAIN http.headers
                /\ http.headers["www-authenticate"]
                        = <<call.authResult.challenge>>
        /\ http.statusCode = 403 =>
                "www-authenticate" \notin DOMAIN http.headers

C8_Witness ==
    /\ log.denied
    /\ call.authResult.actor = "null"
    /\ http.statusCode = 401
    /\ Answered

\* C9: an OPTIONS request to a matched endpoint whose handler returned its
\* allowed methods, whatever they are, is answered by _sendOptionsResponse
\* (200, Allow with OPTIONS, no body, not through _sendResponse), and
\* authenticate(), isAllowed() and handleCall() are never invoked.
C9_OptionsBypassesAuthentication ==
    (pc # "idle" /\ req.method = "OPTIONS"
        /\ call.endpointMatch.result = "match") =>
        /\ log.authenticate = 0
        /\ log.isAllowed = 0
        /\ log.handleCall = 0
        /\ "getAllowedMethods" \notin log.errors =>
                /\ Quiet /\ Answered
                /\ http.statusCode = 200
                /\ http.body = <<>>
                /\ log.sent = <<>>
                /\ Contains(http.headers["allow"], "OPTIONS")
                /\ \A i \in 1..Len(call.allowedMethods) :
                        Contains(http.headers["allow"], call.allowedMethods[i])

C9_Witness ==
    /\ req.method = "OPTIONS"
    /\ call.endpointMatch.result = "match"
    /\ call.allowedMethods = <<"POST", "OPTIONS">>
    /\ Answered
    /\ http.statusCode = 200

\* The request's path matches none of the registered endpoint patterns
NoPatternMatches ==
    \/ ~StartsWithAt(req.pathname, cfg.prefix, 1)
    \/ \A n \in 1..Len(cfg.endpoints) :
            ~MatchItems(cfg.endpoints[n].uriPattern, 1,
                        SubSeq(req.pathname, Len(cfg.prefix) + 1,
                               Len(req.pathname)),
                        1, <<>>).ok

\* The call answers 404 'No API endpoint at this URI.' and no handler method
\* and no authenticate() was invoked
NotFoundAnswer ==
    /\ call.endpointMatch = NoMatch
    /\ http.heads = 1
    /\ http.statusCode = 404
    /\ log.sent = <<404>>
    /\ (Quiet /\ req.method # "HEAD") =>
            http.body = <<Serialize(<<"No API endpoint at this URI.">>)>>
    /\ log.getAllowedMethods = 0
    /\ log.isPublic = 0
    /\ log.isAllowed = 0
    /\ log.getRequestEntityValidator = 0
    /\ log.handleCall = 0
    /\ log.authenticate = 0

\* C10 as stated: a request whose path matches no endpoint pattern is
\* answered 404 with the 'No API endpoint at this URI.' entity without any
\* handler or the authenticator being consulted.
C10_NotFoundConsultsNobody ==
    (pc # "idle" /\ Len(cfg.endpoints) > 0 /\ NoPatternMatches) =>
        NotFoundAnswer /\ log.addResponseAuthInfo = 0

\* C10, amended: a request whose path matches no endpoint pattern is
\* answered 404 with the 'No API endpoint at this URI.' entity; no handler
\* method and no authenticate() is invoked, the authenticator's
\* addResponseAuthInfo is invoked once for the 404 response.
C10_NotFoundIs404 ==
    (pc # "idle" /\ Len(cfg.endpoints) > 0 /\ NoPatternMatches) =>
        NotFoundAnswer /\ log.addResponseAuthInfo = 1

C10_Witness ==
    /\ NoPatternMatches
    /\ cfg.prefix # <<>>
    /\ http.statusCode = 404
    /\ Quiet /\ Answered


\* The request's method is none of OPTIONS, GET, HEAD, POST, PUT, PATCH, DELETE
UnlistedMethod ==
    /\ pc # "idle"
    /\ req.method \notin {"OPTIONS", "GET", "HEAD", "POST", "PUT", "PATCH",
                          "DELETE"}

MethodChecked ==
    /\ pc # "idle"
    /\ call.endpointMatch.result = "match"
    /\ req.method \in {"GET", "HEAD", "POST", "PUT", "PATCH", "DELETE"}
    /\ "getAllowedMethods" \notin log.errors

\* The request's method, HEAD taken as GET, is in the handler's set
MethodInAllowedSet ==
    \/ req.method = "HEAD" /\ Contains(call.allowedMethods, "GET")
    \/ req.method # "HEAD" /\ Contains(call.allowedMethods, req.method)

\* The call was answered 405 by process()
Rejected405 ==
    /\ http.heads = 1
    /\ http.statusCode = 405
    /\ log.sent = <<405>>
    /\ log.authenticate = 0

\* C12: a known method other than OPTIONS on a matched endpoint is rejected
\* with 405 exactly when the method, HEAD taken as GET, is not in the set
\* getAllowedMethods returned; otherwise the call proceeds to authenticate(),
\* HEAD with GET allowed and HEAD not listed included.
C12_Rejected405IffNotAllowed ==
    MethodChecked =>
        /\ Rejected405 <=> ~MethodInAllowedSet
        /\ MethodInAllowedSet => log.authenticate = 1

C12_Witness ==
    /\ MethodChecked
    /\ req.method = "HEAD"
    /\ call.allowedMethods = <<"GET">>
    /\ log.authenticate = 1

\* The methods a 405 has to list for the handler's allowed methods
ExpectedAllow ==
    {call.allowedMethods[i] : i \in 1..Len(call.allowedMethods)}
        \cup (IF Contains(call.allowedMethods, "GET") THEN {"HEAD"} ELSE {})
        \cup {"OPTIONS"}

\* C13: the Allow header of a 405 lists exactly the methods
\* getAllowedMethods returned, HEAD as well when GET is among them, and
\* OPTIONS, each of them once.
C13_AllowOf405 ==
    (MethodChecked /\ Rejected405) =>
        /\ "allow" \in DOMAIN http.headers
        /\ LET allow == http.headers["allow"] IN
            /\ {allow[i] : i \in 1..Len(allow)} = ExpectedAllow
            /\ \A i, j \in 1..Len(allow) : allow[i] = allow[j] => i = j
            /\ call.allowedMethods = <<"GET">> => allow = <<"GET", "HEAD", "OPTIONS">>

C13_Witness ==
    /\ MethodChecked
    /\ Rejected405
    /\ call.allowedMethods = <<"POST", "OPTIONS">>
    /\ http.headers["allow"] = <<"POST", "OPTIONS">>

\* C14: a handler result of null is answered 204 without an entity, any
\* other plain value 200 with the value as the only entity; a response
\* object is sent with its own status code.
C14_HandlerResultDeterminesResponse ==
    (Quiet /\ log.result # "") =>
        /\ http.heads = 1
        /\ log.result = "null" => http.statusCode = 204 /\ http.body = <<>>
        /\ log.result = "object" =>
               /\ http.statusCode = 200
               /\ req.method # "HEAD" => http.body = <<Serialize(<<"x">>)>>
        /\ log.result = "response" => http.statusCode = log.sent[1]

\* C15: a request entity whose received bytes exceed the maximum request
\* size never reaches handleCall and is answered 413 with
\* 'Connection: close'.
C15_OversizeEntityIs413 ==
    entityIn.bytesRead > cfg.maxRequestSize =>
        /\ log.handleCall = 0
        /\ Quiet =>
            /\ http.heads = 1
            /\ http.statusCode = 413
            /\ "connection" \in DOMAIN http.headers
            /\ http.headers["connection"] = <<"close">>

\* C16: the handler is called with a deserialized request entity only after
\* the endpoint's entity validator has been run on it.
C16_EntityValidatedBeforeHandler ==
    (/\ log.handleCall > 0
     /\ call.validateRequestEntity
     /\ call.ctx # <<>>
     /\ call.ctx[1].requestEntity = "entity") => log.validate > 0

\* The Access-Control-Allow-Origin and Access-Control-Allow-Credentials
\* headers of the response head that was written: <<>> for an absent header
AllowOriginSent ==
    IF "access-control-allow-origin" \in DOMAIN http.headers
    THEN http.headers["access-control-allow-origin"] ELSE <<>>

AllowCredentialsSent ==
    IF "access-control-allow-credentials" \in DOMAIN http.headers
    THEN http.headers["access-control-allow-credentials"] ELSE <<>>

\* The request's origin matches the public pattern and the matched endpoint
\* is public
PublicOriginOnPublicEndpoint ==
    /\ cfg.allowedPublicOriginsPattern
    /\ req.origin \in PublicOrigins
    /\ call.endpointMatch.result = "match"
    /\ handler.isPublic

SecureAppAnswered ==
    /\ pc # "idle"
    /\ cfg.allowedSecureOriginsPattern
    /\ http.heads > 0

\* An OPTIONS request without Access-Control-Request-Method answered by
\* _sendOptionsResponse
OptionsWithoutRequestMethod ==
    /\ req.method = "OPTIONS"
    /\ req.requestMethod = ""
    /\ log.sent = <<>>

CorsHeaders ==
    {"access-control-allow-origin", "access-control-allow-credentials",
     "access-control-expose-headers", "access-control-max-age",
     "access-control-allow-method", "access-control-allow-methods",
     "access-control-allow-headers"}

\* The outcome of the call c: the response written, but for its CORS
\* headers, and how far the call has got
OutcomeOf(c) ==
    [pc |-> c.pc, heads |-> c.http.heads, statusCode |-> c.http.statusCode,
     headers |-> [n \in DOMAIN c.http.headers \ CorsHeaders |->
                     c.http.headers[n]],
     body |-> c.http.body, ends |-> c.http.ends,
     bytesRead |-> c.entityIn.bytesRead]

\* The handler's methods invoked for the call c, but for isPublic
InvocationsOf(c) ==
    [getAllowedMethods |-> c.log.getAllowedMethods,
     isAllowed |-> c.log.isAllowed,
     getRequestEntityValidator |-> c.log.getRequestEntityValidator,
     handleCall |-> c.log.handleCall]

\* Both calls have met the same events of a request that was received
BothCallsLevel == pending = <<>> /\ pc # "idle"

\* C19 as stated: two requests that differ in the Origin header only get
\* the same status code and body, differ in no response header but the CORS
\* ones, and drive the same invocations of the handler's methods.
C19_OriginChangesOnlyCorsHeaders ==
    BothCallsLevel =>
        /\ OutcomeOf(ThisCall) = OutcomeOf(other)
        /\ InvocationsOf(ThisCall) = InvocationsOf(other)
        /\ log.isPublic = other.log.isPublic

\* C19: two requests that differ in the Origin header only get the same
\* status code and body, differ in no response header but the CORS ones, and
\* drive the same invocations of the handler's methods but for isPublic,
\* which is asked only for a request with an Origin header.
C19_OriginChangesOnlyCorsHeadersAndIsPublic ==
    BothCallsLevel =>
        /\ req.origin # other.req.origin
        /\ [req EXCEPT !.origin = ""] = [other.req EXCEPT !.origin = ""]
        /\ OutcomeOf(ThisCall) = OutcomeOf(other)
        /\ InvocationsOf(ThisCall) = InvocationsOf(other)
        /\ (req.origin # "" /\ other.req.origin # "") =>
                log.isPublic = other.log.isPublic

C19_Witness ==
    /\ BothCallsLevel
    /\ pc = "quiet"
    /\ http.statusCode = 200
    /\ log.handleCall = 1
    /\ req.origin = "https://evil.example"
    /\ other.req.origin = "https://both.example"
    /\ cfg.allowedSecureOriginsPattern
    /\ "access-control-allow-origin" \in DOMAIN other.http.headers
    /\ "access-control-allow-origin" \notin DOMAIN http.headers
    /\ http.body # <<>>

\* A preflight request answered by _sendOptionsResponse
PreflightAnswered ==
    /\ pc # "idle"
    /\ req.method = "OPTIONS"
    /\ req.origin # ""
    /\ req.requestMethod # ""
    /\ log.sent = <<>>
    /\ http.heads = 1

\* The CORS decision allows the request's origin
OriginAllowed ==
    \/ PublicOriginOnPublicEndpoint
    \/ ~cfg.allowedSecureOriginsPattern
    \/ req.origin \in SecureOrigins

\* C20: the answer to a preflight request from an allowed origin carries
\* Access-Control-Allow-Methods with the requested method,
\* Access-Control-Allow-Headers when Access-Control-Request-Headers was sent,
\* and Access-Control-Max-Age; the answer to a preflight request from a
\* disallowed origin carries none of them.
C20_PreflightGrantsMethod ==
    PreflightAnswered =>
        IF OriginAllowed
        THEN /\ "access-control-allow-methods" \in DOMAIN http.headers
             /\ Contains(http.headers["access-control-allow-methods"],
                         req.requestMethod)
             /\ req.requestHeaders # "" =>
                    "access-control-allow-headers" \in DOMAIN http.headers
             /\ "access-control-max-age" \in DOMAIN http.headers
        ELSE DOMAIN http.headers \cap
                {"access-control-allow-methods", "access-control-allow-headers",
                 "access-control-max-age"} = {}

\* The request's pathname after the application's endpoints prefix
StrippedPath == SubSeq(req.pathname, Len(cfg.prefix) + 1, Len(req.pathname))

\* Endpoint number n's own pattern, anchored, matched against the stripped path
OwnMatch(n) == MatchItems(cfg.endpoints[n].uriPattern, 1, StrippedPath, 1, <<>>)

\* The endpoints whose own pattern matches the request's path
MatchingEndpoints ==
    IF StartsWithAt(req.pathname, cfg.prefix, 1)
    THEN {n \in 1..Len(cfg.endpoints) : OwnMatch(n).ok}
    ELSE {}

\* The lookup returned endpoint n with that endpoint's own groups
LookupReturned(n) ==
    /\ call.endpointMatch.result = "match"
    /\ call.endpointMatch.endpoint = n
    /\ call.endpointMatch.handler = cfg.endpoints[n].handler
    /\ Len(call.endpointMatch.uriParams) = cfg.endpoints[n].numUriParams
    /\ call.endpointMatch.uriParams = OwnMatch(n).caps

\* C21: a lookup on a path that matches an endpoint returns the first such
\* endpoint's handler with exactly its numUriParams parameter values, the
\* endpoint's own groups in order, an absent optional group kept as missing.
C21_LookupReturnsOwnGroups ==
    (pc # "idle" /\ MatchingEndpoints # {}) =>
        LookupReturned(CHOOSE n \in MatchingEndpoints :
                            \A k \in MatchingEndpoints : n <= k)

\* The handler resolved with a response of two or more entities, none of them
\* a stream, to a request other than HEAD
MultipartResolved ==
    /\ pc = "quiet"
    /\ log.result = "response"
    /\ log.entities >= 2
    /\ req.method # "HEAD"

\* C22: a buffered response with two or more entities is sent with its own
\* status code, the Content-Type multipart/mixed and a body of its parts.
C22_MultipartBodySent ==
    MultipartResolved =>
        /\ http.heads = 1
        /\ http.statusCode = log.sent[1]
        /\ "content-type" \in DOMAIN http.headers
        /\ http.headers["content-type"] # <<"application/json">>
        /\ Len(http.body) >= log.entities

\* C23: a response to a HEAD request and a response without entities are a
\* head followed by end(): no body buffer is written for them.
C23_HeadAndEntitylessHaveNoBody ==
    (pc # "idle" /\ (req.method = "HEAD" \/ log.entities = 0)) =>
        /\ http.body = <<>>
        /\ http.ends = http.heads
        /\ out.bufs = <<>>

\* The call has got past authenticate()
AuthenticationSettled == pc \notin {"idle", "auth"}

\* C24: an actor lookup failing with the code server_error rejects the
\* authentication and the request is answered 500 without asking isAllowed;
\* a lookup failing with another code leaves the request unauthenticated (no
\* actor, a challenge) and a call the handler then denies is answered 401.
C24_LookupErrorCodes ==
    AuthenticationSettled =>
        /\ auth.lookup = "server_error" =>
              /\ "authenticate" \in log.errors
              /\ log.isAllowed = 0
              /\ log.sent[1] = 500
              /\ http.heads = 1 /\ http.statusCode = 500
        /\ auth.lookup \in {"invalid_request", "access_denied"} =>
              /\ "authenticate" \notin log.errors
              /\ call.authResult = [actor |-> "null", challenge |-> Challenge]
              /\ log.isAllowed = 1
              /\ log.denied =>
                    /\ http.heads = 1 /\ http.statusCode = 401
                    /\ http.headers["www-authenticate"] = <<Challenge>>

C24_Witness ==
    /\ AuthenticationSettled
    /\ auth.lookup = "access_denied"
    /\ log.denied
    /\ pc = "quiet"
    /\ http.statusCode = 401
\* What an application has registered: endpoints, service providers and
\* header value handlers
Registrations(a) == <<a.endpoints, a.serviceProviders, a.headerValueHandlers>>

\* The methods that register something
RegistrationOps == {"endpoint", "resource", "service", "headerValueHandler"}

\* C27: once the application is initialized, by init() or by the first
\* respond(), every call of endpoint(), resource(), service() and of the
\* registering form of headerValueHandler() throws and leaves the registered
\* endpoints, service providers and header value handlers as they were; a
\* call of init() returns normally only when the application was not
\* initialized, so at most once.
C27_RegistrationClosedAfterInit ==
    [][ /\ (app.initialized /\ lastCall'.op \in RegistrationOps) =>
               /\ lastCall'.threw # ""
               /\ Registrations(app') = Registrations(app)
        /\ (app.initialized /\ lastCall'.op = "init") =>
               /\ lastCall'.threw # ""
               /\ app'.inits = app.inits
        /\ app'.inits <= 1 ]_vars

\* A registration was refused after an initialization that succeeded
C27_Witness ==
    /\ app.initialized
    /\ app.inits = 1
    /\ lastCall.op = "headerValueHandler"
    /\ lastCall.threw = "Error"
    /\ app.headerValueHandlers = BuiltinHeaderValueHandlers

\* The names of the registered services
RegisteredNames(entries) == {entries[i].name : i \in 1..Len(entries)}

\* The names in the dependencies of the provider registered under the name
DependenciesOf(entries, name) ==
    LET deps == entries[EntryIndex(entries, name)].provider.dependencies
    IN  {deps[i] : i \in 1..Len(deps)}

RECURSIVE DependsWithin(_, _, _, _)

\* The service from depends on the service to through at most n registered
\* providers' dependencies
DependsWithin(entries, from, to, n) ==
    /\ n > 0
    /\ from \in RegisteredNames(entries)
    /\ \/ to \in DependenciesOf(entries, from)
       \/ \E mid \in DependenciesOf(entries, from) :
              DependsWithin(entries, mid, to, n - 1)

\* Some registered service depends on itself, directly or not
HasCircularDependency(entries) ==
    \E name \in RegisteredNames(entries) :
        DependsWithin(entries, name, name, Len(entries))

\* Some registered provider names a service that is not registered
HasUnknownDependency(entries) ==
    \E name \in RegisteredNames(entries) :
        ~(DependenciesOf(entries, name) \subseteq RegisteredNames(entries))

\* C28: init() instantiates no service twice and every service only after
\* the services named in its provider's dependencies; an init() that
\* returns has instantiated every registered service; with a circular
\* dependency or a dependency on an unregistered service init() fails and
\* no service is instantiated.
C28_ServicesInDependencyOrder ==
    app.initialized =>
        /\ \A i, j \in 1..Len(app.created) :
               app.created[i] = app.created[j] => i = j
        /\ \A i \in 1..Len(app.created) :
               DependenciesOf(app.registered, app.created[i])
                   \subseteq {app.created[j] : j \in 1..(i - 1)}
        /\ app.inits = 1 =>
               {app.created[i] : i \in 1..Len(app.created)}
                   = RegisteredNames(app.registered)
        /\ (\/ HasCircularDependency(app.registered)
            \/ HasUnknownDependency(app.registered)) =>
               /\ app.inits = 0
               /\ app.created = <<>>

\* init() returned after it instantiated the application's service db ahead
\* of actorRegistry, which was registered first and depends on it
C28_Witness ==
    /\ app.inits = 1
    /\ "db" \in DependenciesOf(app.registered, "actorRegistry")
    /\ EntryIndex(app.registered, "actorRegistry")
           < EntryIndex(app.registered, "db")
    /\ \E i, j \in 1..Len(app.created) :
           /\ i < j
           /\ app.created[i] = "db"
           /\ app.created[j] = "actorRegistry"
\* The value of the header in the set, <<>> when the set has no such header
HeaderValueOf(response, nameLC) ==
    IF nameLC \in DOMAIN response.headers THEN response.headers[nameLC]
    ELSE <<>>

\* C29: a call header(name, value, keepExisting) with a null value removes
\* the header whatever keepExisting is; with keepExisting and the header
\* present it leaves the header's value as it was; otherwise the header is
\* present afterwards with the value its handler combines from the value it
\* had and the value given. The header is the one of the lower-cased name,
\* and no other header changes.
C29_HeaderCall ==
    [][ LET c == headerCall'
            n == ToLowerCase(c.name)
            present == n \in DOMAIN headersSet.headers
        IN  /\ c.value = NullValue => n \notin DOMAIN headersSet'.headers
            /\ (c.value # NullValue /\ c.keepExisting /\ present) =>
                   /\ n \in DOMAIN headersSet'.headers
                   /\ headersSet'.headers[n] = headersSet.headers[n]
            /\ (c.value # NullValue /\ ~(c.keepExisting /\ present)) =>
                   /\ n \in DOMAIN headersSet'.headers
                   /\ headersSet'.headers[n] =
                          HandlerValue(n, HeaderValueOf(headersSet, n), c.value)
            /\ \A m \in (DOMAIN headersSet.headers
                            \cup DOMAIN headersSet'.headers) \ {n} :
                   /\ m \in DOMAIN headersSet.headers
                   /\ m \in DOMAIN headersSet'.headers
                   /\ headersSet'.headers[m] = headersSet.headers[m] ]_vars

\* header("ALLOW", "GET, post", true) was called on a set that has Allow with
\* another value, which it kept
C29_Witness ==
    /\ headerCall = HeaderCall("ALLOW", <<"GET", "post">>, TRUE)
    /\ "allow" \in DOMAIN headersSet.headers
    /\ headersSet.headers["allow"] = <<"POST", "GET">>

\* The headers in the set whose handler keeps a list
ListHeadersIn(response) ==
    DOMAIN response.headers \cap (MethodsListHeaders \cup HeadersListHeaders)

\* C30: the value of a header with a list handler has no element twice, has
\* one element for each element given that differs in more than letter
\* case, and its elements are the normalized forms (upper case for a method,
\* header case for a header name) of the elements the handler was given, in
\* whatever calls and order they came.
C30_ListHandlersAccumulateSet ==
    \A n \in ListHeadersIn(headersSet) :
        LET v == headersSet.headers[n]
        IN  /\ \A i, j \in 1..Len(v) : v[i] = v[j] => i = j
            /\ Len(v) = Cardinality({ToLowerCase(t) : t \in given[n]})
            /\ {v[i] : i \in 1..Len(v)} =
                   {IF n \in MethodsListHeaders THEN ToUpperCase(t)
                    ELSE HeaderCase(t) : t \in given[n]}

\* Allow and Vary have been given the same elements in several letter cases
\* and in different calls, and each holds two elements
C30_Witness ==
    /\ {"allow", "vary"} \subseteq DOMAIN headersSet.headers
    /\ {"get", "GET", "post", "POST"} \subseteq given["allow"]
    /\ {"origin", "Origin", "x-custom", "X-CUSTOM", "X-Custom"}
           \subseteq given["vary"]
    /\ Len(headersSet.headers["allow"]) = 2
    /\ Len(headersSet.headers["vary"]) = 2
\* The result of handleCall has settled: its promise was fulfilled or
\* rejected, or the call threw
HandleCallSettled ==
    \/ log.result # ""
    \/ "handler" \in log.errors
    \/ "handleCall" \in log.errors

\* C31: handleCall is invoked only after the authentication result resolved
\* and isAllowed returned true for its actor, and, when the handler gave a
\* request entity validator, after the request's 'end' event with all the
\* announced bytes read and the entity deserialized; once handleCall was
\* invoked no response head is written until its result has settled.
C31_HandleCallAfterDecisions ==
    log.handleCall > 0 =>
        /\ log.handleCall = 1
        /\ log.authenticate = 1
        /\ call.authResult # NoAuthResult
        /\ log.isAllowed = 1
        /\ ~log.denied
        /\ "isAllowed" \notin log.errors
        /\ call.ctx # <<>>
        /\ call.ctx[1].actor = call.authResult.actor
        /\ call.validateRequestEntity =>
               /\ call.ctx[1].requestEntity = "entity"
               /\ entityIn.contentLength # -1 =>
                      entityIn.bytesRead = entityIn.contentLength
        /\ ~HandleCallSettled => (http.heads = 0 /\ log.sent = <<>>)

\* handleCall is pending for a request whose entity was read in two chunks
C31_Witness ==
    /\ pc = "handler"
    /\ log.handleCall = 1
    /\ call.validateRequestEntity
    /\ entityIn.dataBufs = 2
    /\ entityIn.bytesRead = entityIn.contentLength
    /\ http.heads = 0
\* The match array of the master expression for the request's path
MasterMatch == MasterExec(cfg.endpoints, cfg.prefix, req.pathname)

\* The endpoints whose own enclosing group is set in the match array
EnclosingGroupSet ==
    {n \in 1..Len(cfg.endpoints) :
        MatchAt(MasterMatch.groups, PatternIndex(cfg.endpoints, n) + 1) # Absent}

\* C34: whenever the master expression matches the request's path, exactly one
\* endpoint's own enclosing group is set, the lookup returns that endpoint (it
\* does not fail and the index it found holds an endpoint), and the endpoint's
\* own pattern matches the path after the prefix; also for an empty matched
\* text.
C34_LookupIdentifiesMatchedEndpoint ==
    (pc # "idle" /\ MasterMatch.ok) =>
        /\ Cardinality(EnclosingGroupSet) = 1
        /\ FindIndex(cfg.endpoints, MasterMatch.groups)
               \in DOMAIN EndpointsIndex(cfg.endpoints)
        /\ call.endpointMatch.result = "match"
        /\ call.endpointMatch.endpoint \in EnclosingGroupSet
        /\ OwnMatch(call.endpointMatch.endpoint).ok

\* C39: when the request's path matches the patterns of several endpoints the
\* lookup returns the one registered first among them, with that endpoint's
\* parameter values.
C39_FirstRegisteredWins ==
    (pc # "idle" /\ Cardinality(MatchingEndpoints) >= 2) =>
        \E n \in MatchingEndpoints :
            /\ \A k \in MatchingEndpoints : n <= k
            /\ call.endpointMatch.result = "match"
            /\ call.endpointMatch.endpoint = n
            /\ call.endpointMatch.handler = cfg.endpoints[n].handler
            /\ call.endpointMatch.uriParams = OwnMatch(n).caps
\* The buffers written so far are the first curBufInd body buffers, each once
\* and in order; the loop waits for 'drain' only after a write, before end();
\* end() has been called at most once, and only after the last buffer.
WriteLoopInOrder ==
    /\ http.body = SubSeq(out.bufs, 1, out.curBufInd)
    /\ http.ends <= 1
    /\ pc = "write" => (out.curBufInd = 0 /\ http.ends = 0)
    /\ pc = "drain" => (out.curBufInd >= 1 /\ http.ends = 0)
    /\ pc = "quiet" => (out.curBufInd = Len(out.bufs) /\ http.ends = 1)

\* While the loop waits for 'drain' nothing is written but by the 'drain'
\* event, which writes at least the next buffer or calls end().
ResumesOnDrain ==
    (pc = "drain" /\ <<http, out, pc>>' # <<http, out, pc>>) =>
        /\ \E fullAt \in 0..Len(out.bufs) : Drain(fullAt)
        /\ out'.curBufInd > out.curBufInd \/ http'.ends = 1

\* C35: in the buffered write loop each body buffer is written exactly once
\* and in order, writing pauses after a write that reports a full queue and
\* resumes only on 'drain', end() is called exactly once, after the last
\* buffer; and when every awaited 'drain' fires end() is eventually called.
C35_WriteLoopCompletes ==
    /\ []WriteLoopInOrder
    /\ [][ResumesOnDrain]_vars
    /\ <>(http.ends = 1 /\ http.body = out.bufs)

\* The loop has been resumed by a 'drain' and waits for the next one in the
\* middle of a multipart body.
C35_Witness ==
    /\ pc = "drain"
    /\ out.curBufInd >= 2
    /\ out.curBufInd < Len(out.bufs)
    /\ Len(out.bufs) = 4 * MaxEntities + 1
\* C36: a response head, of a normal or of an OPTIONS response, carries
\* Access-Control-Allow-Credentials (with the value true) only if a secure
\* origins pattern is configured, the request's Origin matches it and
\* Access-Control-Allow-Origin is that origin; never together with '*' and
\* never for an origin that matches the public pattern only.
C36_CredentialsOnlyForSecureOrigin ==
    (pc # "idle" /\ http.heads > 0) =>
        /\ AllowCredentialsSent # <<>> =>
              /\ AllowCredentialsSent = <<"true">>
              /\ cfg.allowedSecureOriginsPattern
              /\ req.origin \in SecureOrigins
              /\ AllowOriginSent = <<req.origin>>
        /\ AllowOriginSent = <<"*">> => AllowCredentialsSent = <<>>
        /\ req.origin \in PublicOrigins \ SecureOrigins =>
              AllowCredentialsSent = <<>>

\* A preflight answered with credentials allowed
C36_Witness ==
    /\ pc # "idle"
    /\ http.heads = 1
    /\ req.method = "OPTIONS"
    /\ req.requestMethod # ""
    /\ log.sent = <<>>
    /\ AllowCredentialsSent = <<"true">>
    /\ AllowOriginSent = <<req.origin>>

\* A response to an origin that matches the public pattern only, on a public
\* endpoint: the origin is allowed
PublicOnlyOriginAllowed ==
    /\ pc # "idle"
    /\ http.heads = 1
    /\ req.origin \in PublicOrigins \ SecureOrigins
    /\ AllowOriginSent = <<req.origin>>
\* Every settled authenticate() whose lookup was fulfilled reports the actor
\* when validCredentials accepted the request's credentials and no actor with
\* the challenge when it did not.
CredentialsChecked ==
    \A i \in 1..Len(auth) :
        (auth[i].state = "resolved" /\ upstream[calls[i].ret].state = "fulfilled") =>
            auth[i].authResult =
                IF auth[i].valid
                THEN [actor |-> ActorOf(calls[i].key), challenge |-> ""]
                ELSE Unauthenticated

\* A step in which a callback of authenticate() runs leaves the cache and the
\* registry's lookups as they were.
CallbackLeavesCache ==
    (Len(auth') = Len(auth) /\ auth' # auth) =>
        /\ cacheKeys' = cacheKeys
        /\ cacheMap' = cacheMap
        /\ upstream' = upstream

\* C37: for every sequence of requests, a request whose credentials are not
\* valid for the looked-up actor is reported unauthenticated (no actor, the
\* challenge), also when its lookup returned a fresh entry that an earlier
\* request with valid credentials populated, and reporting it does not alter
\* the cached entry.
C37_CachingKeepsCredentialsCheck ==
    /\ []CredentialsChecked
    /\ [][CallbackLeavesCache]_vars

\* A request with invalid credentials was reported unauthenticated after its
\* lookup returned the fresh entry populated by an earlier request that was
\* authenticated with valid credentials; the entry is still in the cache.
C37_Witness ==
    \E i, j \in 1..Len(auth) :
        /\ i < j
        /\ calls[i].key = calls[j].key
        /\ calls[i].ret = calls[j].ret
        /\ auth[i].valid
        /\ auth[i].authResult.actor = ActorOf(calls[i].key)
        /\ auth[j].hit
        /\ ~auth[j].valid
        /\ auth[j].state = "resolved"
        /\ auth[j].authResult = Unauthenticated
        /\ Has(calls[j].key)
        /\ cacheMap[calls[j].key].resolved
        /\ cacheMap[calls[j].key].actorPromise = calls[j].ret
\* C40: shutdown() called on an application that is not initialized or was
\* shut down already does nothing and raises no error, and respond() called
\* after the shutdown is answered (503) without initializing anything or
\* touching the services.
C40_ShutdownIdempotent ==
    [][/\ (lastCall'.op = "shutdown" /\ (~app.initialized \/ app.shutdown)) =>
              (lastCall'.threw = "" /\ app' = app)
       /\ (lastCall'.op = "respond" /\ app.shutdown) =>
              (lastCall'.threw = "" /\ app' = app)]_vars

(***************************************************************************)
(* Claims about the ActorRegistryCache (checked under SpecCache).          *)
(***************************************************************************)

Pending(id) == upstream[id].state = "pending"
PendingFor(k) == {id \in 1..Len(upstream) : Pending(id) /\ upstream[id].key = k}
PendingEntryFor(k) == {id \in PendingFor(k) : upstream[id].via = "entry"}

\* Index of the lookup call that issued upstream call id.
IssuedAt(id) == CHOOSE j \in 1..Len(calls) :
                    calls[j].ret = id /\ \A i \in 1..(j - 1) : calls[i].ret # id

\* Every lookup for the key of call id made since id was issued received id.
SharedSinceIssued(id) ==
    \A j \in (IssuedAt(id) + 1)..Len(calls) :
        calls[j].key = upstream[id].key => calls[j].ret = id

\* A step that is a lookup call for key k.
LookupStep(k) ==
    /\ Len(calls') = Len(calls) + 1
    /\ calls'[Len(calls')].key = k

\* The lookup step issued a new call of ActorRegistry.lookup.
IssuesUpstream == Len(upstream') = Len(upstream) + 1

\* C4 (as claimed): in enabled mode at most one upstream ActorRegistry.lookup
\* per actor id is in flight at any time, and every lookup for that id issued
\* while it is in flight receives the same shared future.
C4_SingleFlightEveryLookup ==
    ~disabled =>
        /\ \A k \in Keys : Cardinality(PendingFor(k)) <= 1
        /\ \A id \in 1..Len(upstream) : Pending(id) => SharedSinceIssued(id)

\* C4 (as amended): in enabled mode at most one upstream lookup issued for a
\* cache entry is in flight per actor id, the entry of that id is in the map and
\* holds that future, and every lookup for the id issued while the entry is in
\* flight receives the same shared future. (Lookups that bypass the cache,
\* because every slot holds an in-flight lookup, are not single-flight.)
C4_SingleFlightPerEntry ==
    ~disabled =>
        /\ \A k \in Keys : Cardinality(PendingEntryFor(k)) <= 1
        /\ \A k \in Keys : \A id \in PendingEntryFor(k) :
              /\ Has(k)
              /\ ~cacheMap[k].resolved
              /\ cacheMap[k].actorPromise = id
              /\ SharedSinceIssued(id)

\* Two lookups share the future of one in-flight entry.
C4_Witness ==
    /\ ~disabled
    /\ \E k \in Keys : \E id \in PendingEntryFor(k) :
          Cardinality({j \in 1..Len(calls) : calls[j].ret = id}) >= 2

\* C5: in every reachable state of an enabled cache the number of entries is at
\* most maxCached (and the map holds exactly the keys of its iteration order).
C5_NeverMoreThanMaxCached ==
    ~disabled =>
        /\ CacheSize <= maxCached
        /\ Cardinality(SeqSet(cacheKeys)) = CacheSize
        /\ DOMAIN cacheMap = SeqSet(cacheKeys)

\* The cache is full and a lookup for a key that is not in it was refused
\* admission (it threw or went straight to the registry).
C5_Witness ==
    /\ ~disabled
    /\ CacheSize = maxCached
    /\ \E j \in 1..Len(calls) :
          /\ ~Has(calls[j].key)
          /\ calls[j].ret = 0 \/ upstream[calls[j].ret].via = "direct"

\* C6: in enabled mode a lookup for key k issues a new upstream call exactly
\* when k has no entry or k's entry is resolved and now - timestamp >= ttl;
\* otherwise (resolved and fresh, or in flight) it returns the entry's existing
\* future and makes no upstream call.
C6_UpstreamCallExactlyWhenMissingOrStale ==
    [][\A k \in Keys : (~disabled /\ LookupStep(k)) =>
          LET missingOrStale == ~Has(k) \/ Stale(cacheMap[k], now) IN
          /\ IssuesUpstream <=> missingOrStale
          /\ ~missingOrStale =>
                calls'[Len(calls')].ret = cacheMap[k].actorPromise]_vars

\* The last lookup for k before this step got a future that has been rejected.
LastLookupFailed(k) ==
    \E j \in 1..Len(calls) :
        /\ calls[j].key = k
        /\ \A i \in (j + 1)..Len(calls) : calls[i].key # k
        /\ calls[j].ret # 0
        /\ upstream[calls[j].ret].state = "rejected"

\* A step in which upstream call id, issued for a cache entry, fails.
EntryLookupFails(id) ==
    /\ id <= Len(upstream)
    /\ upstream[id].via = "entry"
    /\ upstream[id].state = "pending"
    /\ upstream'[id].state = "rejected"

\* C7: when an upstream lookup for key k fails the entry for k is removed, every
\* caller waiting on that future observes the failure (the future they hold is
\* the rejected one), and the next lookup for k issues a fresh upstream call.
C7_FailureNeverCached ==
    [][/\ \A id \in 1..MaxLookups : EntryLookupFails(id) =>
             \A k \in Keys : upstream[id].key = k =>
                 /\ ~(\E i \in 1..Len(cacheKeys') : cacheKeys'[i] = k)
                 /\ k \notin DOMAIN cacheMap'
       /\ \A k \in Keys :
             (~disabled /\ LookupStep(k) /\ LastLookupFailed(k)) =>
                 /\ IssuesUpstream
                 /\ calls'[Len(calls')].ret = Len(upstream')]_vars

\* The cache was constructed with a capacity or a TTL of zero or less
ConstructedNonPositive == (maxCached <= 0) \/ (cacheTTLms <= 0)

\* C25: when the cache is constructed with capacity <= 0 or TTL <= 0, every
\* lookup, concurrent lookups for the same key included, is passed directly
\* to the registry's lookup (each call returns the promise of an upstream
\* lookup of its own, made for its own key), getActorId is never called and
\* the cache holds no entry, in every reachable state.
C25_DisabledPassesThrough ==
    ConstructedNonPositive =>
        /\ cacheKeys = <<>>
        /\ cacheMap = <<>>
        /\ Len(upstream) = Len(calls)
        /\ \A i \in 1..Len(calls) :
              /\ calls[i].ret = i
              /\ upstream[i].via = "direct"
              /\ upstream[i].key = calls[i].key
              /\ ~calls[i].getActorId

\* Two lookups for the same key are in flight at once in a cache constructed
\* with a capacity or a TTL of zero or less
C25_Witness ==
    /\ ConstructedNonPositive
    /\ \E i, j \in 1..Len(calls) :
          /\ i < j
          /\ calls[i].key = calls[j].key
          /\ calls[i].ret # calls[j].ret
          /\ upstream[calls[i].ret].state = "pending"
          /\ upstream[calls[j].ret].state = "pending"

\* The value a deployment configures: the configuration parameter when it is
\* set, the provider's property otherwise
Configured(config, property) == IF config = <<>> THEN property ELSE config[1]

\* C26: a maximum number of cached actors (maxCached / X2_ACTOR_CACHE_MAX) or
\* a TTL (cacheTTL / X2_ACTOR_CACHE_TTL) configured to zero or a negative
\* number yields a cache service that is disabled.
C26_NonPositiveConfigurationDisables ==
    (\/ Configured(provider.X2_ACTOR_CACHE_MAX, provider.maxCached) <= 0
     \/ Configured(provider.X2_ACTOR_CACHE_TTL, provider.cacheTTL) <= 0)
        => disabled

\* The keys of the resolved entries, and those of them that are stale at now.
ResolvedKeys == {j \in DOMAIN cacheMap : cacheMap[j].resolved}
StaleKeys == {j \in DOMAIN cacheMap : Stale(cacheMap[j], now)}

\* C32: a lookup for a key without an entry, made when the cache is at
\* capacity and holds a resolved entry, deletes every resolved entry that is
\* stale; if there is none it deletes exactly one entry, a resolved one with
\* the oldest timestamp; it then inserts the new key and issues its upstream
\* lookup.
C32_AdmissionEvictsThenInserts ==
    [][\A k \in Keys :
          (/\ ~disabled
           /\ LookupStep(k)
           /\ ~Has(k)
           /\ CacheSize >= maxCached
           /\ ResolvedKeys # {}) =>
              LET removed == DOMAIN cacheMap \ DOMAIN cacheMap' IN
              /\ StaleKeys # {} => removed = StaleKeys
              /\ StaleKeys = {} =>
                    \E j \in ResolvedKeys :
                        /\ removed = {j}
                        /\ \A i \in ResolvedKeys :
                              cacheMap[j].timestamp <= cacheMap[i].timestamp
              /\ k \in DOMAIN cacheMap'
              /\ IssuesUpstream
              /\ calls'[Len(calls')].ret = Len(upstream')]_vars

\* Every entry of the cache is an in-flight unresolved lookup.
AllInFlight == \A j \in DOMAIN cacheMap : ~cacheMap[j].resolved

\* The lookup step left the cache as it was, emitted the warning and returned
\* the future of a direct registry lookup made for key k.
BypassStep(k) ==
    /\ cacheKeys' = cacheKeys
    /\ cacheMap' = cacheMap
    /\ warned'
    /\ IssuesUpstream
    /\ upstream'[Len(upstream')] = [key |-> k, via |-> "direct", state |-> "pending"]
    /\ calls'[Len(calls')].ret = Len(upstream')

\* C33: a lookup for a key without an entry, made when the cache is at
\* capacity, skips caching exactly when every entry is an in-flight unresolved
\* lookup; it then leaves the cache unchanged, emits the 'ineffective' warning
\* and returns the future of a direct registry lookup for its key.
C33_BypassWhenAllInFlight ==
    [][\A k \in Keys :
          (/\ ~disabled
           /\ LookupStep(k)
           /\ ~Has(k)
           /\ CacheSize >= maxCached) =>
              /\ AllInFlight => BypassStep(k)
              /\ ~AllInFlight => k \in DOMAIN cacheMap']_vars

\* C38: an entry whose upstream lookup is in flight is removed by no lookup
\* (admission and eviction for other keys included): after every step it is
\* still in the map with the same future, resolved only by the fulfilment of
\* that future, unless the step is the failure of its own upstream lookup.
C38_InFlightEntryStays ==
    [][\A j \in Keys : (j \in DOMAIN cacheMap /\ ~cacheMap[j].resolved) =>
          LET id == cacheMap[j].actorPromise IN
          IF j \in DOMAIN cacheMap'
          THEN /\ \E i \in 1..Len(cacheKeys') : cacheKeys'[i] = j
               /\ cacheMap'[j].actorPromise = id
               /\ cacheMap'[j].resolved =>
                     (upstream[id].state = "pending" /\
                      upstream'[id].state = "fulfilled")
          ELSE EntryLookupFails(id) /\ upstream[id].key = j]_vars

\* The cache is full, one of its entries is in flight, and a lookup for a key
\* without an entry was made after that entry's upstream lookup was issued.
C38_Witness ==
    /\ ~disabled
    /\ CacheSize = maxCached
    /\ \E j \in DOMAIN cacheMap :
          /\ ~cacheMap[j].resolved
          /\ upstream[cacheMap[j].actorPromise].state = "pending"
          /\ \E c \in 1..Len(calls) :
                /\ c > IssuedAt(cacheMap[j].actorPromise)
                /\ calls[c].key \notin DOMAIN cacheMap

====
